---- MODULE Spec2Model ----
(***************************************************************************)
(* shinkrodb: the identifier-resolution pipeline (ranking ingestion,       *)
(* AniDB scrape, anime-list bridge lookup, TMDB resolution, duplicate      *)
(* resolution) over the SQLite cache, as a state machine.                  *)
(*                                                                         *)
(* One run of App.Run is the sequence of stage actions                     *)
(*   StartRun, GetAnimeIDs, ScrapeAniDBIDs, GetTvdbIDs, GetTmdbIds,        *)
(*   Dedupe                                                                *)
(* and the cache and the artifact files persist from one run to the next.  *)
(* The external sources (ranking pages, detail pages, anime-list.xml, the  *)
(* TMDB search API, animetitles.xml) are the record `world`, chosen in the *)
(* initial state and answering the same way in every run.                  *)
(*                                                                         *)
(* Specifications:                                                         *)
(*   Spec           the pipeline, MaxRuns runs in a row                    *)
(*   SpecSteps      one run from the scrape stage on, one candidate of the *)
(*                  scrape and movie-database stages at a time             *)
(*   SpecFilter     filterAnimeToScrape and filterMoviesToFetch on one     *)
(*                  input                                                  *)
(*   SpecDedupe     one call of CheckDupes                                 *)
(*   SpecRoundTrip  FileRepository.Store followed by Get                   *)
(*   SpecCache      the cache under any sequence of the stages' upserts    *)
(*   SpecScore      the API branch of the movie-database stage on one      *)
(*                  movie                                                  *)
(*   SpecOrder      the scrape stage with the answers of the detail pages  *)
(*                  in any order                                           *)
(*   SpecBridge     successive loads of the bridge table, with the clock   *)
(*   SpecMigrate    DB.Migrate on a database of each schema version        *)
(*                                                                         *)
(* Environment facts the model states rather than derives:                 *)
(*  - the cache database is opened without the foreign_keys pragma         *)
(*    (database.go:33), so REPLACE on mal_cache leaves the anidb_cache and *)
(*    tmdb_cache rows alone;                                               *)
(*  - opening the cache database can fail; cache queries and writes and    *)
(*    the artifact file writes succeed once it is open; an artifact is     *)
(*    read after the stage before it wrote it;                             *)
(*  - anime-list.xml, when obtained, parses, and its local copy stays      *)
(*    fresh between the runs of a behaviour;                               *)
(*  - of the master mapping files only tmdb-mal-unmapped.yaml is in the    *)
(*    model, and writing them succeeds; a notification is recorded when it *)
(*    is attempted, whether or not the webhook accepts it;                 *)
(*  - the CacheRepo the TMDB stage calls (UpsertEntry storing a TMDB id)   *)
(*    is not among the sources: UpsertEntry merges the supplied fields     *)
(*    into the three tables of cache.go.                                   *)
(***************************************************************************)
EXTENDS Integers, Sequences, FiniteSets, TLC

VARIABLES
    pc,        \* position of the run inside App.Run
    run,       \* number of the run in progress (1-based), 0 before the first
    world,     \* the answers of the external sources
    config,    \* domain.Config: AniDBMode, TMDBMode
    cache,     \* the three cache tables: mal_cache, anidb_cache, tmdb_cache
    files,     \* the artifact files (JSON documents) on disk
    terminal,  \* terminal lists (for-shinkro.json) of the completed runs
    trace,     \* what the stages of the run in progress did (requests, picks)
    arg,       \* input of the function under study (function specifications)
    res        \* its result

vars == <<pc, run, world, config, cache, files, terminal, trace, arg, res>>

(***************************************************************************)
(* Bounds.                                                                 *)
(***************************************************************************)
MaxRuns == 2
MaxPages == 2

(***************************************************************************)
(* Small helpers.                                                          *)
(***************************************************************************)
Range(s) == {s[i] : i \in DOMAIN s}

SeqsUpTo(S, n) == UNION {[1..k -> S] : k \in 0..n}

RECURSIVE SelectIdx(_, _, _)
\* the indices i of s, ascending, with Keep[i]
SelectIdx(n, i, Keep) ==
    IF i > n THEN <<>>
    ELSE (IF Keep[i] THEN <<i>> ELSE <<>>) \o SelectIdx(n, i + 1, Keep)

RemoveAt(s, i) == SubSeq(s, 1, i - 1) \o SubSeq(s, i + 1, Len(s))

(***************************************************************************)
(* Strings.  TLC strings are atoms, so the string functions the code uses  *)
(* are tables over the titles and dates of the model.                      *)
(***************************************************************************)
Titles == {"", "Show A", "SHOW A", "Show B", "Film C", "film c", " Film C", "Film C the",
           "Film C the Movie", "Film D"}

\* strings.ToLower
ToLower(t) ==
    CASE t = "Show A" -> "show a"
      [] t = "SHOW A" -> "show a"
      [] t = "Show B" -> "show b"
      [] t = "Film C" -> "film c"
      [] t = "Film C the Movie" -> "film c the movie"
      [] t = "Film C the" -> "film c the"
      [] t = " Film C" -> " film c"
      [] t = "Film D" -> "film d"
      [] OTHER -> t

\* strings.EqualFold
EqualFold(a, b) == ToLower(a) = ToLower(b)

\* strings.TrimSpace
TrimSpace(t) ==
    CASE t = " Film C" -> "Film C"
      [] t = " film c" -> "film c"
      [] OTHER -> t

\* strings.Contains(s, sub) on the lower-cased titles
Contains(s, sub) ==
    \/ sub = ""
    \/ s = sub
    \/ s = "film c the movie" /\ sub \in {"film c", "film c the", " film c"}
    \/ s = "film c the" /\ sub \in {"film c", " film c"}
    \/ s = " film c" /\ sub = "film c"

CurrentYear == 2025

Dates == {"", "2019-07-01", "2020-05-01", "2020-05-04", "2020-11-20", "2023-10-01",
          "2024-04-01", "2025", "2025-01-10", "2026-01", "2027-04-01", "soon"}

\* strconv.Atoi(releaseDate[:4]); -1 stands for the parse error
YearOf(d) ==
    CASE d \in {"2019-07-01"} -> 2019
      [] d \in {"2020-05-01", "2020-05-04", "2020-11-20"} -> 2020
      [] d = "2023-10-01" -> 2023
      [] d = "2024-04-01" -> 2024
      [] d \in {"2025", "2025-01-10"} -> 2025
      [] d = "2026-01" -> 2026
      [] d = "2027-04-01" -> 2027
      [] OTHER -> -1

\* len(releaseDate)
DateLen(d) ==
    CASE d = "" -> 0
      [] d = "2025" -> 4
      [] d = "soon" -> 4
      [] d = "2026-01" -> 7
      [] OTHER -> 10

(***************************************************************************)
(* domain.Anime and its JSON form.                                         *)
(***************************************************************************)
Types == {"tv", "movie", "ova"}

Anime(title, en, ja, syn, malid, anidb, tvdb, tmdb, type, date) ==
    [MainTitle |-> title, EnglishTitle |-> en, JapaneseTitle |-> ja, Synonyms |-> syn,
     MalID |-> malid, AnidbID |-> anidb, TvdbID |-> tvdb, TmdbID |-> tmdb,
     Type |-> type, ReleaseDate |-> date]

\* a JSON key with its value, left out for the zero value under omitempty
Key(name, value, omitempty, zero) ==
    IF omitempty /\ value = zero THEN <<>> ELSE name :> value

\* json.Marshal with TvdbID tagged json:"-" as well
MarshalAnimeNoTvdb(a) ==
    Key("title", a.MainTitle, FALSE, "") @@ Key("enTitle", a.EnglishTitle, TRUE, "")
    @@ Key("malid", a.MalID, FALSE, 0) @@ Key("anidbid", a.AnidbID, TRUE, 0)
    @@ Key("tmdbid", a.TmdbID, TRUE, 0)
    @@ Key("type", a.Type, FALSE, "") @@ Key("releaseDate", a.ReleaseDate, FALSE, "")

\* json.Marshal of one Anime, a function from the keys of the object to their
\* values: JapaneseTitle and Synonyms carry json:"-", the English title and the
\* three looked-up identifiers carry omitempty
MarshalAnime(a) ==
    Key("title", a.MainTitle, FALSE, "") @@ Key("enTitle", a.EnglishTitle, TRUE, "")
    @@ Key("malid", a.MalID, FALSE, 0) @@ Key("anidbid", a.AnidbID, TRUE, 0)
    @@ Key("tvdbid", a.TvdbID, TRUE, 0) @@ Key("tmdbid", a.TmdbID, TRUE, 0)
    @@ Key("type", a.Type, FALSE, "") @@ Key("releaseDate", a.ReleaseDate, FALSE, "")

\* the value json.Unmarshal leaves in a field: the zero value of the fresh
\* struct when the object has no such key
Field(j, name, zero) == IF name \in DOMAIN j THEN j[name] ELSE zero

\* json.Unmarshal of one object into a fresh Anime
UnmarshalAnime(j) ==
    Anime(Field(j, "title", ""), Field(j, "enTitle", ""), "", <<>>, Field(j, "malid", 0),
          Field(j, "anidbid", 0), Field(j, "tvdbid", 0), Field(j, "tmdbid", 0),
          Field(j, "type", ""), Field(j, "releaseDate", ""))

\* a file is [exists, doc]
NoFile == [exists |-> FALSE, doc |-> <<>>]

\* FileRepository.Store: the file it leaves
Store(list) == [exists |-> TRUE, doc |-> [i \in DOMAIN list |-> MarshalAnime(list[i])]]

\* FileRepository.Get (of a file that exists)
Get(file) == [i \in DOMAIN file.doc |-> UnmarshalAnime(file.doc[i])]

(***************************************************************************)
(* The cache (internal/database/cache.go): three tables keyed by mal_id.   *)
(* A table is a function from the ids that have a row to the row's value.  *)
(* The timestamp columns are left out.                                     *)
(***************************************************************************)
Put(m, k, v) == [x \in (DOMAIN m) \cup {k} |-> IF x = k THEN v ELSE m[x]]

Drop(m, k) == [x \in (DOMAIN m) \ {k} |-> m[x]]

EmptyMap == [x \in {} |-> 0]

EmptyCache == [mal |-> EmptyMap, anidb |-> EmptyMap, tmdb |-> EmptyMap]

\* a mal_cache REPLACE that also removes the child rows (ON DELETE CASCADE firing)
UpsertMALCascade(c, malID, releaseDate, animeType) ==
    [mal |-> Put(c.mal, malID, [release_date |-> releaseDate, type |-> animeType]),
     anidb |-> Drop(c.anidb, malID),
     tmdb |-> Drop(c.tmdb, malID)]

\* CacheRepo.UpsertMAL: REPLACE INTO mal_cache
UpsertMAL(c, malID, releaseDate, animeType) ==
    [c EXCEPT !.mal = Put(c.mal, malID, [release_date |-> releaseDate, type |-> animeType])]

\* an AniDB upsert that replaces a whole cache_entries row, the TMDB id with it
UpsertAniDBWholeRow(c, malID, anidbID) ==
    [c EXCEPT !.anidb = Put(c.anidb, malID, anidbID), !.tmdb = Drop(c.tmdb, malID)]

\* CacheRepo.UpsertAniDB: REPLACE INTO anidb_cache
UpsertAniDB(c, malID, anidbID) == [c EXCEPT !.anidb = Put(c.anidb, malID, anidbID)]

\* CacheRepo.UpsertTMDB: REPLACE INTO tmdb_cache
UpsertTMDB(c, malID, tmdbID) == [c EXCEPT !.tmdb = Put(c.tmdb, malID, tmdbID)]

\* CacheRepo.GetAniDBIDs: SELECT mal_id, anidb_id FROM anidb_cache (every row)
GetAniDBIDs(c) == c.anidb

\* CacheRepo.GetTMDBIDs: SELECT mal_id, tmdb_id FROM tmdb_cache (every row)
GetTMDBIDs(c) == c.tmdb

\* CacheRepo.DeleteMAL: DELETE FROM mal_cache (the child rows stay: no foreign keys)
DeleteMAL(c, malID) == [c EXCEPT !.mal = Drop(c.mal, malID)]

\* CacheRepo.UpsertEntry as the TMDB stage calls it.  The implementation that
\* stores the entry's TmdbID is not among the sources; it merges the fields the
\* entry supplies (a zero identifier is an absent field) into the tables.
UpsertEntry(c, entry) ==
    LET c1 == UpsertMAL(c, entry.MalID, entry.ReleaseDate, entry.Type)
        c2 == IF entry.AnidbID > 0 THEN UpsertAniDB(c1, entry.MalID, entry.AnidbID) ELSE c1
    IN  IF entry.TmdbID > 0 THEN UpsertTMDB(c2, entry.MalID, entry.TmdbID) ELSE c2

(***************************************************************************)
(* Ranking ingestion (mal service).                                        *)
(* A page response is [status, data]; the page after the last one of       *)
(* world.pages is the one whose paging.next is empty.                      *)
(***************************************************************************)
IDs == 1..3

PageOK == "200"
PageStatuses == {PageOK, "neterr", "500", "badjson"}

Node(id, title, en, ja, syn, type, date) ==
    [id |-> id, title |-> title, en |-> en, ja |-> ja, synonyms |-> syn,
     media_type |-> type, start_date |-> date]

\* the loop body of storeAnimeID: one domain.Anime per item of the page
NodeAnime(v) ==
    Anime(v.title, v.en, v.ja, v.synonyms, v.id, 0, 0, 0, v.media_type, v.start_date)

PageAnime(page) == [i \in DOMAIN page.data |-> NodeAnime(page.data[i])]

\* storeAnimeID without the status and decode checks: a failed page adds nothing
storeAnimeIDUnchecked(pages, k, a) ==
    [err |-> FALSE, a |-> a \o PageAnime(pages[k]),
     next |-> IF k < Len(pages) THEN k + 1 ELSE 0]

\* storeAnimeID: [err, a, next]; next = 0 is the empty cursor
storeAnimeID(pages, k, a) ==
    IF pages[k].status # PageOK
    THEN [err |-> TRUE, a |-> a, next |-> 0]
    ELSE [err |-> FALSE, a |-> a \o PageAnime(pages[k]),
          next |-> IF k < Len(pages) THEN k + 1 ELSE 0]

RECURSIVE FetchFrom(_, _, _)
\* the for loop of GetAnimeIDs, from page k on
FetchFrom(pages, k, a) ==
    LET r == storeAnimeID(pages, k, a)
    IN  IF r.err THEN [err |-> TRUE, a |-> r.a]
        ELSE IF r.next = 0 THEN [err |-> FALSE, a |-> r.a]
        ELSE FetchFrom(pages, r.next, r.a)

RECURSIVE InsertSorted(_, _)
\* x after the last element of the sorted s whose MalID is <= x.MalID
InsertSorted(s, x) ==
    IF s = <<>> THEN <<x>>
    ELSE IF s[Len(s)].MalID <= x.MalID THEN Append(s, x)
    ELSE Append(InsertSorted(SubSeq(s, 1, Len(s) - 1), x), s[Len(s)])

\* GetAnimeIDs without its sort: the list in page order
SortByMalIDSkipped(a) == a

RECURSIVE SortByMalID(_)
\* sort.SliceStable by MalID
SortByMalID(a) ==
    IF a = <<>> THEN <<>>
    ELSE InsertSorted(SortByMalID(SubSeq(a, 1, Len(a) - 1)), a[Len(a)])

RECURSIVE UpsertAllMAL(_, _, _)
\* the mal_cache loop of GetAnimeIDs
UpsertAllMAL(c, a, i) ==
    IF i > Len(a) THEN c
    ELSE UpsertAllMAL(UpsertMAL(c, a[i].MalID, a[i].ReleaseDate, a[i].Type), a, i + 1)

\* GetAnimeIDs, whole: [err, list, cache]
GetAnimeIDsResult(pages, c) ==
    LET f == FetchFrom(pages, 1, <<>>)
        sorted == SortByMalID(f.a)
    IN  IF f.err THEN [err |-> TRUE, list |-> <<>>, cache |-> c]
        ELSE [err |-> FALSE, list |-> sorted, cache |-> UpsertAllMAL(c, sorted, 1)]

(***************************************************************************)
(* Fetch modes (domain/config.go) and the scrape stage (mal service).      *)
(***************************************************************************)
FetchModeDefault == "default"
FetchModeMissing == "missing"
FetchModeAll == "all"
FetchModeSkip == "skip"
FetchModes == {FetchModeDefault, FetchModeMissing, FetchModeAll, FetchModeSkip}

\* the release-date test of FetchModeDefault: the first four characters parse
\* to a year that is not before last year
ReleasedSinceLastYear(releaseDate) ==
    /\ releaseDate # ""
    /\ DateLen(releaseDate) >= 4
    /\ YearOf(releaseDate) # -1
    /\ YearOf(releaseDate) >= CurrentYear - 1

\* shouldScrape with the type test of FetchModeDefault applied in FetchModeMissing too
shouldScrapeTvOnly(mode, anime, cachedMalIDs) ==
    CASE mode = FetchModeAll -> TRUE
      [] mode \in {FetchModeMissing, FetchModeDefault} ->
            /\ ~(anime.MalID \in cachedMalIDs \/ anime.AnidbID > 0)
            /\ anime.Type = "tv"
            /\ (mode = FetchModeDefault => ReleasedSinceLastYear(anime.ReleaseDate))
      [] OTHER -> FALSE

\* shouldScrape of filterAnimeToScrape for one entity, cachedMalIDs a set of ids
shouldScrape(mode, anime, cachedMalIDs) ==
    CASE mode = FetchModeAll -> TRUE
      [] mode = FetchModeMissing ->
            ~(anime.MalID \in cachedMalIDs \/ anime.AnidbID > 0)
      [] mode = FetchModeDefault ->
            /\ ~(anime.MalID \in cachedMalIDs \/ anime.AnidbID > 0)
            /\ anime.Type = "tv"
            /\ ReleasedSinceLastYear(anime.ReleaseDate)
      [] OTHER -> FALSE

\* filterAnimeToScrape: the indices of animeList, in order, of the entities it
\* returns (the code returns copies of animeList[i])
filterAnimeToScrape(mode, animeList, cachedMalIDs) ==
    IF mode = FetchModeSkip THEN <<>>
    ELSE SelectIdx(Len(animeList), 1,
                   [i \in DOMAIN animeList |-> shouldScrape(mode, animeList[i], cachedMalIDs)])

\* the ids of the cache map with an AniDB id > 0
CachedMalIDs(anidbMap) == {m \in DOMAIN anidbMap : anidbMap[m] > 0}

\* the first index of a with this MalID, 0 when there is none
FirstIndex(a, malID) ==
    IF \E i \in DOMAIN a : a[i].MalID = malID
    THEN CHOOSE i \in DOMAIN a : a[i].MalID = malID /\ \A j \in 1..(i - 1) : a[j].MalID # malID
    ELSE 0

\* malIDToIndex[malID]: the last index of a with this MalID, 0 when not found
malIDToIndex(a, malID) ==
    IF \E i \in DOMAIN a : a[i].MalID = malID
    THEN CHOOSE i \in DOMAIN a : a[i].MalID = malID /\ \A j \in (i + 1)..Len(a) : a[j].MalID # malID
    ELSE 0

\* the back-fill loop of ScrapeAniDBIDs: for each cached id, the first entity with it
BackfillAniDB(a, anidbMap) ==
    [i \in DOMAIN a |->
        IF a[i].MalID \in CachedMalIDs(anidbMap) /\ FirstIndex(a, a[i].MalID) = i
        THEN [a[i] EXCEPT !.AnidbID = anidbMap[a[i].MalID]]
        ELSE a[i]]

\* the OnHTML callback with the cache write left to the end of the stage
RECURSIVE OnHTMLDeferred(_, _, _)
OnHTMLDeferred(st, malID, links) ==
    IF links = <<>> THEN st
    ELSE LET i == malIDToIndex(st.a, malID)
             st1 == IF i = 0 THEN st
                    ELSE [a |-> [st.a EXCEPT ![i].AnidbID = links[1]], cache |-> st.cache]
         IN  OnHTMLDeferred(st1, malID, Tail(links))

RECURSIVE OnHTMLFirstWins(_, _, _)
\* an OnHTML that leaves an AniDB id alone once an entity of the list has it
OnHTMLFirstWins(st, malID, links) ==
    IF links = <<>> THEN st
    ELSE LET i == malIDToIndex(st.a, malID)
             st1 == IF i = 0 \/ \E j \in DOMAIN st.a : st.a[j].AnidbID = links[1] THEN st
                    ELSE [a |-> [st.a EXCEPT ![i].AnidbID = links[1]],
                          cache |-> UpsertAniDB(st.cache, malID, links[1])]
         IN  OnHTMLFirstWins(st1, malID, Tail(links))

RECURSIVE OnHTML(_, _, _)
\* the OnHTML callback for each AniDB link of the page of malID, in page order:
\* st = [a, cache]
OnHTML(st, malID, links) ==
    IF links = <<>> THEN st
    ELSE LET i == malIDToIndex(st.a, malID)
             st1 == IF i = 0 THEN st
                    ELSE [a |-> [st.a EXCEPT ![i].AnidbID = links[1]],
                          cache |-> UpsertAniDB(st.cache, malID, links[1])]
         IN  OnHTML(st1, malID, Tail(links))

\* the callbacks of one fetched page, as a state [a, cache, visited]
Visited(st, malID, h) == [a |-> h.a, cache |-> h.cache, visited |-> Append(st.visited, malID)]

\* a Visit whose callback, on a page without an AniDB link, takes the id of
\* the page for the AniDB id
VisitOneTakingPageID(st, malID, page) ==
    IF malID \in Range(st.visited) THEN st
    ELSE IF ~page.ok THEN [st EXCEPT !.visited = Append(@, malID)]
    ELSE Visited(st, malID,
                 OnHTML([a |-> st.a, cache |-> st.cache], malID,
                        IF page.links = <<>> THEN <<malID>> ELSE page.links))

\* one cc.Visit of the Visit loop, for the MalID of a candidate: the collector
\* does not fetch a URL twice, and a failed fetch runs no callback.
\* st = [a, cache, visited]
VisitOne(st, malID, page) ==
    IF malID \in Range(st.visited) THEN st
    ELSE IF ~page.ok THEN [st EXCEPT !.visited = Append(@, malID)]
    ELSE Visited(st, malID, OnHTML([a |-> st.a, cache |-> st.cache], malID, page.links))

RECURSIVE VisitAll(_, _, _, _)
\* the Visit loop over the candidates toScrape (indices of the list)
VisitAll(st, toScrape, k, detail) ==
    IF k > Len(toScrape) THEN st
    ELSE VisitAll(VisitOne(st, st.a[toScrape[k]].MalID, detail[st.a[toScrape[k]].MalID]),
                  toScrape, k + 1, detail)

\* ScrapeAniDBIDs, whole, on the list read from malid.json:
\* [list, cache, toScrape, visited, backfilled]
ScrapeAniDBIDsResult(mode, list, c, detail) ==
    LET anidbMap == GetAniDBIDs(c)
        a == BackfillAniDB(list, anidbMap)
        toScrape == filterAnimeToScrape(mode, a, CachedMalIDs(anidbMap))
        v == VisitAll([a |-> a, cache |-> c, visited |-> <<>>], toScrape, 1, detail)
    IN  IF Len(toScrape) = 0
        THEN [list |-> a, cache |-> c, toScrape |-> toScrape, visited |-> <<>>, backfilled |-> a]
        ELSE [list |-> v.a, cache |-> v.cache, toScrape |-> toScrape,
              visited |-> v.visited, backfilled |-> a]

(***************************************************************************)
(* The bridge table (pkg/animelist) and the TVDB stage.                    *)
(* The local copy anime-list.xml is [body, fresh]: fresh while it is at    *)
(* most cacheMaxAge old.  The remote answer is [ok, body]; a body is a     *)
(* sequence of <anime> records with string attributes.                     *)
(***************************************************************************)
\* strconv.Atoi on the attribute values of the model; -1 stands for the error
AtoiAttr(t) ==
    CASE t = "0" -> 0
      [] t = "100" -> 100
      [] t = "200" -> 200
      [] t = "700" -> 700
      [] t = "900" -> 900
      [] OTHER -> -1

\* buildMap for one of the two maps: attr is "tvdbid" or "tmdbid".  A later
\* record of the same AniDB id overwrites an earlier one.
RECURSIVE buildMap(_, _, _)
buildMap(records, attr, m) ==
    IF records = <<>> THEN m
    ELSE LET r == records[1]
             anidbID == AtoiAttr(r.anidbid)
             id == AtoiAttr(IF attr = "tvdbid" THEN r.tvdbid ELSE r.tmdbid)
         IN  buildMap(Tail(records), attr,
                      IF anidbID # -1 /\ id > 0 THEN Put(m, anidbID, id) ELSE m)

\* loadFromCache succeeds: the file exists and is not older than cacheMaxAge
CacheUsable(file) == file.exists /\ file.fresh

\* NewAnimeList(ctx, "."): [err, tvdbMap, tmdbMap, file, fetched]
\* remote is the answer of the next request for the document, writable tells
\* whether the best-effort write of the local copy succeeds
NewAnimeList(file, remote, writable) ==
    LET body == IF CacheUsable(file) THEN file.body ELSE remote.body
        file1 == IF CacheUsable(file) \/ ~remote.ok \/ ~writable THEN file
                 ELSE [exists |-> TRUE, body |-> remote.body, fresh |-> TRUE]
    IN  IF ~CacheUsable(file) /\ ~remote.ok
        THEN [err |-> TRUE, tvdbMap |-> EmptyMap, tmdbMap |-> EmptyMap,
              file |-> file, fetched |-> TRUE]
        ELSE [err |-> FALSE, tvdbMap |-> buildMap(body, "tvdbid", EmptyMap),
              tmdbMap |-> buildMap(body, "tmdbid", EmptyMap),
              file |-> file1, fetched |-> ~CacheUsable(file)]

\* AnimeList.GetTvdbID / GetTmdbID: the zero value for a missing key
GetTvdbID(al, aid) == IF aid \in DOMAIN al.tvdbMap THEN al.tvdbMap[aid] ELSE 0
GetTmdbID(al, aid) == IF aid \in DOMAIN al.tmdbMap THEN al.tmdbMap[aid] ELSE 0

\* the loop of GetTvdbIDs over the list read from malid-anidbid.json
SetTvdbIDs(a, al) ==
    [i \in DOMAIN a |->
        IF a[i].Type = "tv" /\ a[i].AnidbID > 0 /\ GetTvdbID(al, a[i].AnidbID) > 0
        THEN [a[i] EXCEPT !.TvdbID = GetTvdbID(al, a[i].AnidbID)]
        ELSE a[i]]

(***************************************************************************)
(* Matching of search results (tmdb service).  A search result is          *)
(* [id, title, original_title, release_date, popularity, vote_count,       *)
(* genre_ids, video].  Scores are kept times ScoreScale, which makes the   *)
(* two quotients of calculateScore whole numbers.                          *)
(***************************************************************************)
ScoreScale == 500
minConfidenceScore == 50 * ScoreScale

Min(x, y) == IF x <= y THEN x ELSE y

\* getYear: the leading four digits, 0 for the empty match
getYear(d) == IF YearOf(d) = -1 THEN 0 ELSE YearOf(d)

\* time.Parse("2006-01-02", d) as a day number; -1 stands for the parse error
DayNumber(d) ==
    CASE d = "2019-07-01" -> 181
      [] d = "2020-05-01" -> 486
      [] d = "2020-05-04" -> 489
      [] d = "2020-11-20" -> 689
      [] d = "2023-10-01" -> 1734
      [] d = "2024-04-01" -> 1917
      [] d = "2025-01-10" -> 2201
      [] d = "2027-04-01" -> 3012
      [] OTHER -> -1

Abs(x) == IF x < 0 THEN -x ELSE x

\* the title part of calculateScore; 0 is the "no title match" return
TitleScore(anime, result) ==
    LET malTitle == ToLower(TrimSpace(anime.MainTitle))
        malEnglishTitle == ToLower(TrimSpace(anime.EnglishTitle))
        malJapaneseTitle == ToLower(TrimSpace(anime.JapaneseTitle))
        tmdbTitle == ToLower(TrimSpace(result.title))
        tmdbOriginalTitle == ToLower(TrimSpace(result.original_title))
    IN  CASE malTitle = tmdbTitle \/ malEnglishTitle = tmdbTitle -> 40
          [] malTitle = tmdbOriginalTitle \/ malEnglishTitle = tmdbOriginalTitle -> 35
          [] malJapaneseTitle # "" /\ (malJapaneseTitle = tmdbOriginalTitle
                                        \/ malJapaneseTitle = tmdbTitle) -> 35
          [] Contains(tmdbTitle, malTitle) \/ Contains(malTitle, tmdbTitle) -> 25
          [] Contains(tmdbOriginalTitle, malTitle) \/ Contains(malTitle, tmdbOriginalTitle) -> 20
          [] malEnglishTitle # "" /\ (Contains(tmdbTitle, malEnglishTitle)
                                       \/ Contains(malEnglishTitle, tmdbTitle)) -> 25
          [] malJapaneseTitle # "" /\ (Contains(tmdbOriginalTitle, malJapaneseTitle)
                                        \/ Contains(malJapaneseTitle, tmdbOriginalTitle)) -> 20
          [] OTHER -> 0

\* the date part of calculateScore
DateScore(anime, result) ==
    LET malDate == DayNumber(anime.ReleaseDate)
        tmdbDate == DayNumber(result.release_date)
        daysDiff == Abs(malDate - tmdbDate)
    IN  IF result.release_date = anime.ReleaseDate THEN 30
        ELSE IF malDate = -1 \/ tmdbDate = -1 THEN 10
        ELSE IF daysDiff <= 7 THEN 25
        ELSE IF daysDiff <= 30 THEN 20
        ELSE IF daysDiff <= 90 THEN 15
        ELSE 10

\* calculateScore after its title part, which gave titleScore: the early return
\* and the sum of the parts, times ScoreScale
SumScore(titleScore, anime, result) ==
    IF titleScore = 0 THEN 0
    ELSE (titleScore + DateScore(anime, result)) * ScoreScale
         + Min(result.popularity * (ScoreScale \div 10), 10 * ScoreScale)
         + Min(result.vote_count, 10 * ScoreScale)
         + (IF 16 \in result.genre_ids THEN 5 * ScoreScale ELSE 0)

\* calculateScore, times ScoreScale
calculateScore(anime, result) == SumScore(TitleScore(anime, result), anime, result)

\* a nil *scoredResult
NoMatch == [nil |-> TRUE, ID |-> 0, Score |-> 0]
Scored(id, score) == [nil |-> FALSE, ID |-> id, Score |-> score]

\* findBestMatch keeping every scoring result it comes to, the last one winning
KeepLatest(bestMatch, id, skip, score) ==
    IF ~skip /\ score > 0 THEN Scored(id, score) ELSE bestMatch

\* one result of findBestMatch: it becomes the best match when it is not
\* skipped, scores above 0 and there is no best match yet or it scores higher
KeepBest(bestMatch, id, skip, score) ==
    IF ~skip /\ score > 0 /\ (bestMatch.nil \/ score > bestMatch.Score)
    THEN Scored(id, score) ELSE bestMatch

RECURSIVE BestOfUnfiltered(_, _, _, _)
\* the loop of findBestMatch scoring every result, none skipped
BestOfUnfiltered(anime, results, k, bestMatch) ==
    IF k > Len(results) THEN bestMatch
    ELSE BestOfUnfiltered(anime, results, k + 1,
                          KeepBest(bestMatch, results[k].id, FALSE,
                                   calculateScore(anime, results[k])))

RECURSIVE BestOf(_, _, _, _)
\* the loop of findBestMatch over more than one result
BestOf(anime, results, k, bestMatch) ==
    IF k > Len(results) THEN bestMatch
    ELSE BestOf(anime, results, k + 1,
                KeepBest(bestMatch, results[k].id,
                         \/ results[k].video
                         \/ 99 \in results[k].genre_ids
                         \/ getYear(results[k].release_date) # getYear(anime.ReleaseDate),
                         calculateScore(anime, results[k])))

\* findBestMatch: a single result is scored without the skips
findBestMatch(anime, results) ==
    IF Len(results) = 0 THEN NoMatch
    ELSE IF Len(results) = 1
         THEN KeepBest(NoMatch, results[1].id, FALSE, calculateScore(anime, results[1]))
    ELSE BestOf(anime, results, 1, NoMatch)

(***************************************************************************)
(* The selection of the movie-database stage.                              *)
(***************************************************************************)
\* the back-fill loop of GetTmdbIds: every entity whose id has a cached TMDB id > 0
BackfillTMDB(a, cachedTmdbIDs) ==
    [i \in DOMAIN a |->
        IF a[i].MalID \in DOMAIN cachedTmdbIDs /\ cachedTmdbIDs[a[i].MalID] > 0
        THEN [a[i] EXCEPT !.TmdbID = cachedTmdbIDs[a[i].MalID]]
        ELSE a[i]]

\* filterMoviesToFetch with FetchModeAll treated like the other modes
filterMoviesToFetchSkipCached(mode, animeList, cachedTmdbIDs) ==
    IF mode = FetchModeSkip THEN <<>>
    ELSE SelectIdx(Len(animeList), 1,
            [i \in DOMAIN animeList |->
                /\ animeList[i].Type = "movie"
                /\ ~(animeList[i].MalID \in DOMAIN cachedTmdbIDs /\ animeList[i].TmdbID > 0)])

\* filterMoviesToFetch: the indices of animeList, in order, of the entities it returns
filterMoviesToFetch(mode, animeList, cachedTmdbIDs) ==
    IF mode = FetchModeSkip THEN <<>>
    ELSE SelectIdx(Len(animeList), 1,
            [i \in DOMAIN animeList |->
                /\ animeList[i].Type = "movie"
                /\ \/ mode = FetchModeAll
                   \/ /\ mode \in {FetchModeMissing, FetchModeDefault}
                      /\ ~(animeList[i].MalID \in DOMAIN cachedTmdbIDs /\ animeList[i].TmdbID > 0)])

(***************************************************************************)
(* The movie-database stage.  search is the search API: a function from    *)
(* the query titles it knows to a response [ok, total_results, results];   *)
(* any other query gets the empty response.                                *)
(***************************************************************************)
EmptyResponse == [ok |-> TRUE, total_results |-> 0, results |-> <<>>]

\* searchTMDB
searchTMDB(search, title) == IF title \in DOMAIN search THEN search[title] ELSE EmptyResponse

\* generateTitleVariations on the titles of the model: " the Movie" and " Movie"
\* are the suffixes that apply
generateTitleVariations(title) ==
    IF title = "Film C the Movie" THEN <<"Film C", "Film C the">> ELSE <<>>

RECURSIVE KeepTitles(_, _)
\* the titles of ts, in order, the fallback loops search with
KeepTitles(ts, anime) ==
    IF ts = <<>> THEN <<>>
    ELSE (IF ts[1] # "" /\ ts[1] # anime.MainTitle /\ ts[1] # anime.EnglishTitle
          THEN <<ts[1]>> ELSE <<>>) \o KeepTitles(Tail(ts), anime)

\* the titles tryFallbackSearches searches with, in order
FallbackTitles(anime) ==
    (IF anime.JapaneseTitle # "" /\ anime.JapaneseTitle # anime.MainTitle
     THEN <<anime.JapaneseTitle>> ELSE <<>>)
    \o KeepTitles(anime.Synonyms, anime)
    \o KeepTitles(generateTitleVariations(anime.MainTitle)
                  \o (IF anime.EnglishTitle # ""
                      THEN generateTitleVariations(anime.EnglishTitle) ELSE <<>>), anime)

\* searchWithTitle on the response tmdb of its search
matchOfResponse(anime, tmdb) ==
    IF ~tmdb.ok \/ tmdb.total_results = 0 THEN NoMatch
    ELSE findBestMatch(anime, tmdb.results)

\* searchWithTitle
searchWithTitle(anime, search, searchTitle) ==
    matchOfResponse(anime, searchTMDB(search, searchTitle))

\* a fallback match replaces the best one when its score is greater
BetterMatch(match, bestMatch) ==
    IF ~match.nil /\ match.Score > bestMatch.Score THEN match ELSE bestMatch

RECURSIVE FallbackBest(_, _, _, _)
\* the three loops of tryFallbackSearches: a match replaces the best one when
\* its score is greater (bestScore starts at 0)
FallbackBest(anime, search, ts, bestMatch) ==
    IF ts = <<>> THEN bestMatch
    ELSE FallbackBest(anime, search, Tail(ts),
                      BetterMatch(searchWithTitle(anime, search, ts[1]), bestMatch))

\* tryFallbackSearches
tryFallbackSearches(anime, search) == FallbackBest(anime, search, FallbackTitles(anime), NoMatch)

\* the old matching logic without its single-result condition
OldLogicIndexDateOnly(anime, tmdb) ==
    LET hit(k) == tmdb.results[k].release_date = anime.ReleaseDate
    IN  IF \E k \in DOMAIN tmdb.results : hit(k)
        THEN CHOOSE k \in DOMAIN tmdb.results : hit(k) /\ \A j \in 1..(k - 1) : ~hit(j)
        ELSE 0

\* the old matching logic: the first result whose date is the entity's, or the
\* first result when total_results is 1; 0 when there is none
OldLogicIndex(anime, tmdb) ==
    LET hit(k) == tmdb.results[k].release_date = anime.ReleaseDate \/ tmdb.total_results = 1
    IN  IF \E k \in DOMAIN tmdb.results : hit(k)
        THEN CHOOSE k \in DOMAIN tmdb.results : hit(k) /\ \A j \in 1..(k - 1) : ~hit(j)
        ELSE 0

\* the API branch of the candidate loop after its searches: tmdb is the response
\* to query, old the index the old logic picks, best0 the scored match of the
\* response and fb the match of the fallback searches
ResolveWith(anime, query, tmdb, old, best0, fb) ==
    LET low == best0.nil \/ best0.Score < minConfidenceScore
        best == IF low /\ ~fb.nil /\ (best0.nil \/ fb.Score > best0.Score) THEN fb ELSE best0
    IN  IF anime.ReleaseDate = ""
        THEN [tmdbID |-> 0, matched |-> FALSE, how |-> "nodate", queries |-> <<>>]
        ELSE IF ~tmdb.ok
        THEN [tmdbID |-> 0, matched |-> FALSE, how |-> "searcherr", queries |-> <<query>>]
        ELSE IF old > 0
        THEN [tmdbID |-> tmdb.results[old].id, matched |-> TRUE, how |-> "old",
              queries |-> <<query>>]
        ELSE IF ~best.nil /\ best.Score >= minConfidenceScore
        THEN [tmdbID |-> best.ID, matched |-> TRUE, how |-> "score",
              queries |-> <<query>> \o (IF low THEN FallbackTitles(anime) ELSE <<>>)]
        ELSE [tmdbID |-> 0, matched |-> FALSE, how |-> "none",
              queries |-> <<query>> \o (IF low THEN FallbackTitles(anime) ELSE <<>>)]

\* the API branch on the response tmdb to query
ResolveResponse(anime, search, query, tmdb) ==
    ResolveWith(anime, query, tmdb, OldLogicIndex(anime, tmdb),
                findBestMatch(anime, tmdb.results), tryFallbackSearches(anime, search))

\* the API branch of the candidate loop: [tmdbID, matched, how, queries]
ResolveByAPI(anime, search) ==
    ResolveResponse(anime, search,
                    IF anime.EnglishTitle # "" THEN anime.EnglishTitle ELSE anime.MainTitle,
                    searchTMDB(search, IF anime.EnglishTitle # "" THEN anime.EnglishTitle
                                       ELSE anime.MainTitle))

\* the domain.CacheEntry both branches build
CacheEntryOf(anime, listed, tmdbID) ==
    [MalID |-> anime.MalID, AnidbID |-> listed.AnidbID, TmdbID |-> tmdbID,
     ReleaseDate |-> anime.ReleaseDate, Type |-> anime.Type]

RECURSIVE FetchAll(_, _, _, _, _, _)
\* one pass of the candidate loop of GetTmdbIds on candidate anime, the entity
\* at index idx of the filtered list: i is the index its MalID has in the
\* list, bridgeID the bridge table's TMDB id (0 for none) and api the outcome
\* of the API branch, which is taken when bridgeID is 0
FetchOne(st, idx, anime, i, bridgeID, api) ==
    LET tmdbID == IF bridgeID > 0 THEN bridgeID ELSE api.tmdbID
        assign == bridgeID > 0 \/ (api.matched /\ api.tmdbID > 0)
        rec == [idx |-> idx, MalID |-> anime.MalID, AnidbID |-> anime.AnidbID,
                bridgeID |-> bridgeID,
                how |-> IF bridgeID > 0 THEN "bridge" ELSE api.how,
                queries |-> IF bridgeID > 0 THEN <<>> ELSE api.queries,
                tmdbID |-> IF assign THEN tmdbID ELSE 0,
                at |-> IF assign THEN i ELSE 0]
    IN  IF assign /\ i > 0
        THEN [a |-> [st.a EXCEPT ![i].TmdbID = tmdbID],
              cache |-> UpsertEntry(st.cache, CacheEntryOf(anime, st.a[i], tmdbID)),
              log |-> Append(st.log, rec)]
        ELSE [st EXCEPT !.log = Append(@, rec)]

\* the bridge table's TMDB id of a candidate, 0 when the table is not loaded
BridgeIDOf(al, anime) ==
    IF al.loaded /\ anime.AnidbID > 0 THEN GetTmdbID(al, anime.AnidbID) ELSE 0

\* the candidate loop of GetTmdbIds.  a0 is the list as filtered (the candidates
\* are copies taken from it); st = [a, cache, log], one log record a candidate
FetchAll(st, a0, toFetch, k, al, search) ==
    IF k > Len(toFetch) THEN st
    ELSE FetchAll(FetchOne(st, toFetch[k], a0[toFetch[k]],
                           malIDToIndex(st.a, a0[toFetch[k]].MalID),
                           BridgeIDOf(al, a0[toFetch[k]]),
                           ResolveByAPI(a0[toFetch[k]], search)),
                  a0, toFetch, k + 1, al, search)

\* AnimeMovies.Add of an unmapped movie
AnimeMovie(anime) == [MainTitle |-> anime.MainTitle, TMDBID |-> 0, MALID |-> anime.MalID]

\* the entries added for the entities of animeList at the indices idx
AddAll(animeList, idx) == [k \in DOMAIN idx |-> AnimeMovie(animeList[idx[k]])]

\* updateMasterFiles listing the movies that have an id
updateMasterFilesInverted(animeList) ==
    AddAll(animeList,
           SelectIdx(Len(animeList), 1,
                     [i \in DOMAIN animeList |->
                         animeList[i].Type = "movie" /\ animeList[i].TmdbID # 0]))

\* updateMasterFiles: the list it writes to tmdb-mal-unmapped.yaml, the movies
\* of the stage's list that have no TMDB id, in list order
updateMasterFiles(animeList) ==
    AddAll(animeList,
           SelectIdx(Len(animeList), 1,
                     [i \in DOMAIN animeList |->
                         animeList[i].Type = "movie" /\ animeList[i].TmdbID = 0]))

\* GetTmdbIds, whole, on the list read from malid-anidbid-tvdbid.json; load is
\* the result of NewAnimeList when there is something to fetch:
\* [list, cache, toFetch, log, backfilled, loaded]
GetTmdbIdsResult(mode, list, c, load, search) ==
    LET cachedTmdbIDs == GetTMDBIDs(c)
        a == BackfillTMDB(list, cachedTmdbIDs)
        toFetch == filterMoviesToFetch(mode, a, cachedTmdbIDs)
        al == [loaded |-> ~load.err, tvdbMap |-> load.tvdbMap, tmdbMap |-> load.tmdbMap]
        f == FetchAll([a |-> a, cache |-> c, log |-> <<>>], a, toFetch, 1, al, search)
    IN  IF Len(toFetch) = 0
        THEN [list |-> a, cache |-> c, toFetch |-> toFetch, log |-> <<>>,
              backfilled |-> a, loaded |-> FALSE]
        ELSE [list |-> f.a, cache |-> f.cache, toFetch |-> toFetch, log |-> f.log,
              backfilled |-> a, loaded |-> al.loaded]

(***************************************************************************)
(* The external sources of the pipeline specification.                     *)
(***************************************************************************)
\* the ranking source knows three entities
Catalog(id) ==
    CASE id = 1 -> Node(1, "Show A", "", "", <<>>, "tv", "2025-01-10")
      [] id = 2 -> Node(2, "Film C the Movie", "", "Film D", <<"Film C">>, "movie", "2020-05-01")
      [] OTHER -> Node(3, "Show B", "", "", <<>>, "tv", "2024-04-01")

PageOf(ids) == [status |-> PageOK, data |-> [i \in DOMAIN ids |-> Catalog(ids[i])]]
BadPage(status) == [status |-> status, data |-> <<>>]
GoodPages == {PageOf(ids) : ids \in {<<1, 2>>, <<2, 3>>, <<1, 2, 3>>}}
BadPages == {BadPage(st) : st \in PageStatuses \ {PageOK}}
\* the page sequences the ranking source can be asked for: no page follows a failed one
Rankings ==
    {p \in SeqsUpTo(GoodPages \cup BadPages, MaxPages) :
        Len(p) >= 1 /\ \A k \in 1..(Len(p) - 1) : p[k] \in GoodPages}

\* the detail pages: [ok, links], links the aids of the AniDB links of the page
DetailPage(ok, links) == [ok |-> ok, links |-> links]
Details ==
    {[id \in IDs |-> CASE id = 1 -> DetailPage(TRUE, <<100>>)
                       [] id = 2 -> DetailPage(TRUE, <<200>>)
                       [] OTHER -> DetailPage(TRUE, <<100>>)],
     [id \in IDs |-> CASE id = 1 -> DetailPage(FALSE, <<>>)
                       [] id = 2 -> DetailPage(TRUE, <<200>>)
                       [] OTHER -> DetailPage(TRUE, <<100>>)],
     [id \in IDs |-> CASE id = 1 -> DetailPage(TRUE, <<100>>)
                       [] id = 2 -> DetailPage(TRUE, <<>>)
                       [] OTHER -> DetailPage(TRUE, <<300>>)]}

\* the remote bridge document and the answers to the requests for it
BridgeRecord(anidbid, tvdbid, tmdbid) == [anidbid |-> anidbid, tvdbid |-> tvdbid, tmdbid |-> tmdbid]
BridgeBody == <<BridgeRecord("100", "700", ""), BridgeRecord("200", "movie", "900"),
                BridgeRecord("unknown", "700", "900")>>
BridgeBodyNoMovie == <<BridgeRecord("100", "700", ""), BridgeRecord("200", "movie", "")>>
Bridges ==
    {[body |-> BridgeBody, answers |-> <<TRUE>>, writable |-> TRUE],
     [body |-> BridgeBodyNoMovie, answers |-> <<TRUE>>, writable |-> TRUE],
     [body |-> BridgeBody, answers |-> <<TRUE, FALSE>>, writable |-> FALSE],
     [body |-> BridgeBody, answers |-> <<FALSE>>, writable |-> TRUE]}

\* the search API
Result(id, title, original, date, popularity, votes, genres, video) ==
    [id |-> id, title |-> title, original_title |-> original, release_date |-> date,
     popularity |-> popularity, vote_count |-> votes, genre_ids |-> genres, video |-> video]
Response(results, total) == [ok |-> TRUE, total_results |-> total, results |-> results]
FailedResponse == [ok |-> FALSE, total_results |-> 0, results |-> <<>>]
Searches ==
    {[t \in {"Film C the Movie", "Film C", "Film C the"} |-> FailedResponse],
     [t \in {"Film C the Movie"} |->
        Response(<<Result(901, "Film C", "Film D", "2020-05-01", 20, 1000, {16}, FALSE)>>, 1)],
     [t \in {"Film C"} |->
        Response(<<Result(902, "Film C", "", "2020-05-04", 50, 1000, {16}, FALSE)>>, 1)],
     [t \in {"Film C the Movie"} |->
        Response(<<Result(903, "Film C the Movie", "", "2020-11-20", 10, 100, {16}, TRUE),
                   Result(904, "Film D", "Show B", "2020-05-04", 90, 5000, {16}, FALSE)>>, 2)]}

\* the title authority (animetitles.xml): records [aid, title], a title [type, text]
TitleRecord(aid, titles) == [aid |-> aid, title |-> titles]
TitleEntry(type, text) == [type |-> type, text |-> text]
Authorities2 ==
    {[ok |-> FALSE, anime |-> <<>>],
     [ok |-> TRUE,
      anime |-> <<TitleRecord(100, <<TitleEntry("official", "Show B"), TitleEntry("main", "Show A")>>)>>]}

Worlds ==
    [pages : Rankings, detail : Details, bridge : Bridges, search : Searches,
     authority : Authorities2]

\* the pairs of fetch modes a run is started with
Config(anidb, tmdb) == [AniDBMode |-> anidb, TMDBMode |-> tmdb]
Configs ==
    {Config(FetchModeDefault, FetchModeDefault), Config(FetchModeMissing, FetchModeMissing),
     Config(FetchModeAll, FetchModeAll), Config(FetchModeSkip, FetchModeSkip),
     Config(FetchModeMissing, FetchModeSkip)}

(***************************************************************************)
(* Specification of the two selections.  The input is a list as the stage  *)
(* reads it from its input file (no TMDB id yet; AniDB ids as scraped) and *)
(* the ids the cache holds; the movie stage back-fills before it selects.  *)
(***************************************************************************)
MaxFilterList == 2
FilterIDs == 1..2
FilterDates == {"", "soon", "2023-10-01", "2024-04-01", "2026-01", "2027-04-01"}
FilterAnime ==
    {Anime("Show A", "", "", <<>>, m, x, 0, 0, t, d) :
        m \in FilterIDs, x \in {0, 100}, t \in Types, d \in FilterDates}
\* the files are sorted by MalID
FilterLists ==
    {l \in SeqsUpTo(FilterAnime, MaxFilterList) :
        Len(l) >= 1 /\ \A i \in 1..(Len(l) - 1) : l[i].MalID <= l[i + 1].MalID}

\* anidb_cache / tmdb_cache rows for the cached ids (UpsertTMDB is only called with ids > 0)
CachedTmdbIDs(ids) == [m \in ids |-> 500 + m]

FilterInit ==
    /\ pc = "filter"
    /\ arg \in [mode : FetchModes, list : FilterLists, cached : SUBSET FilterIDs]
    /\ res = [stage |-> "", a |-> <<>>, sel |-> <<>>, ma |-> <<>>, msel |-> <<>>]
    /\ run = 0 /\ world = <<>> /\ config = <<>> /\ cache = <<>>
    /\ files = <<>> /\ terminal = <<>> /\ trace = <<>>

FnFrame == UNCHANGED <<run, world, config, cache, files, terminal, trace>>

\* the scrape stage selects from the list: res.sel are the indices selected of res.a
ApplyFilterAnimeToScrape ==
    /\ pc = "filter" /\ res.stage = ""
    /\ res' = [res EXCEPT !.stage = "scrape", !.a = arg.list,
                          !.sel = filterAnimeToScrape(arg.mode, arg.list, arg.cached)]
    /\ UNCHANGED <<pc, arg>> /\ FnFrame

\* the movie-database stage back-fills the list from the cache and selects:
\* res.msel are the indices selected of res.ma
ApplyFilterMoviesToFetch ==
    /\ pc = "filter" /\ res.stage = "scrape"
    /\ LET m == CachedTmdbIDs(arg.cached)
           a == BackfillTMDB(arg.list, m)
       IN  res' = [res EXCEPT !.stage = "movie", !.ma = a,
                              !.msel = filterMoviesToFetch(arg.mode, a, m)]
    /\ UNCHANGED <<pc, arg>> /\ FnFrame

FilterNext == ApplyFilterAnimeToScrape \/ ApplyFilterMoviesToFetch

SpecFilter == FilterInit /\ [][FilterNext]_vars

Scraped(i) == i \in Range(res.sel)
Fetched(i) == i \in Range(res.msel)

\* the reading of "release year within one year of the current year"
WithinOneYear(releaseDate) ==
    /\ DateLen(releaseDate) >= 4
    /\ YearOf(releaseDate) # -1
    /\ YearOf(releaseDate) >= CurrentYear - 1
    /\ YearOf(releaseDate) <= CurrentYear + 1

\* C6: in default mode the scrape stage selects an entity iff its AniDB id is
\* unset, its MalID is not in the cached map, its type is "tv" and its release
\* year is within one year of the current year.
C6_DefaultSelectsWithinOneYear ==
    (res.stage # "" /\ arg.mode = FetchModeDefault) =>
        \A i \in DOMAIN res.a :
            Scraped(i) <=> /\ res.a[i].AnidbID = 0
                           /\ res.a[i].MalID \notin arg.cached
                           /\ res.a[i].Type = "tv"
                           /\ WithinOneYear(res.a[i].ReleaseDate)

\* C7: in missing mode a stage selects exactly the entities whose identifier is
\* unset and whose MalID is not in the cache map of that identifier (movies only
\* in the movie-database stage), whatever their release date and, in the scrape
\* stage, whatever their type.
C7_MissingSelectsUnsetUncached ==
    /\ (res.stage # "" /\ arg.mode = FetchModeMissing) =>
          \A i \in DOMAIN res.a :
              Scraped(i) <=> (res.a[i].AnidbID = 0 /\ res.a[i].MalID \notin arg.cached)
    /\ (res.stage = "movie" /\ arg.mode = FetchModeMissing) =>
          \A i \in DOMAIN res.ma :
              Fetched(i) <=> /\ res.ma[i].Type = "movie"
                             /\ res.ma[i].TmdbID = 0
                             /\ res.ma[i].MalID \notin DOMAIN CachedTmdbIDs(arg.cached)

\* missing mode scraped a non-tv entity without a date and left a cached one
\* out, and the movie-database stage fetched an old uncached movie and left a
\* cached movie out
C7_Witness ==
    /\ arg.mode = FetchModeMissing /\ res.stage = "movie"
    /\ \E i, j \in DOMAIN res.a :
          /\ Scraped(i) /\ res.a[i].Type # "tv" /\ res.a[i].ReleaseDate = ""
          /\ ~Scraped(j) /\ res.a[j].MalID \in arg.cached
    /\ \E i, j \in DOMAIN res.ma :
          /\ Fetched(i) /\ res.ma[i].ReleaseDate = ""
          /\ ~Fetched(j) /\ res.ma[j].Type = "movie" /\ res.ma[j].TmdbID > 0

\* C8: in all mode the scrape stage selects every entity and the movie-database
\* stage selects exactly the entities of type "movie", whether or not their
\* identifier is set or cached.
C8_AllSelectsTypeMatches ==
    /\ (res.stage # "" /\ arg.mode = FetchModeAll) =>
          \A i \in DOMAIN res.a : Scraped(i)
    /\ (res.stage = "movie" /\ arg.mode = FetchModeAll) =>
          \A i \in DOMAIN res.ma : Fetched(i) <=> res.ma[i].Type = "movie"

\* all mode scraped an entity whose AniDB id is set and cached, and the
\* movie-database stage fetched a movie with a cached TMDB id and left a tv entity out
C8_Witness ==
    /\ arg.mode = FetchModeAll /\ res.stage = "movie"
    /\ \E i \in DOMAIN res.a :
          Scraped(i) /\ res.a[i].AnidbID > 0 /\ res.a[i].MalID \in arg.cached
    /\ \E i, j \in DOMAIN res.ma :
          /\ Fetched(i) /\ res.ma[i].TmdbID > 0
          /\ ~Fetched(j) /\ res.ma[j].Type = "tv"

(***************************************************************************)
(* Duplicate resolution (dedupe service).                                  *)
(***************************************************************************)
\* the count loop of CheckDupes: entry i shares its AniDB id with another tv entry
IsDupe(anime, i) ==
    /\ anime[i].AnidbID # 0
    /\ Cardinality({j \in DOMAIN anime :
                        /\ anime[i].AnidbID = anime[j].AnidbID
                        /\ anime[i].Type = anime[j].Type
                        /\ anime[i].Type = "tv"}) > 1

\* indexes of CheckDupes
DupeIndexes(anime) == SelectIdx(Len(anime), 1, [i \in DOMAIN anime |-> IsDupe(anime, i)])

\* aidTitleMap after the find loop: a new key for every duplicated AniDB id
InitAidTitleMap(aidTitleMap, anime) ==
    LET new == {anime[i].AnidbID : i \in Range(DupeIndexes(anime))} \ DOMAIN aidTitleMap
    IN  [k \in DOMAIN aidTitleMap \cup new |-> IF k \in new THEN "" ELSE aidTitleMap[k]]

\* the text of the first title of type "main" of a record of animetitles.xml, "" if none
MainTitleOf(titles) ==
    IF \E i \in DOMAIN titles : titles[i].type = "main"
    THEN titles[CHOOSE i \in DOMAIN titles :
                    titles[i].type = "main" /\ \A j \in 1..(i - 1) : titles[j].type # "main"].text
    ELSE ""

\* the title fillAidTitleMap finds for key: the first record with this aid decides
AuthorityTitle(records, key) ==
    IF \E i \in DOMAIN records : records[i].aid = key
    THEN MainTitleOf(records[CHOOSE i \in DOMAIN records :
                        records[i].aid = key /\ \A j \in 1..(i - 1) : records[j].aid # key].title)
    ELSE ""

\* fillAidTitleMap: [err, aidTitleMap]; authority = [ok, anime] is the answer of
\* the request for animetitles.xml
fillAidTitleMap(aidTitleMap, authority) ==
    IF ~authority.ok THEN [err |-> TRUE, aidTitleMap |-> aidTitleMap]
    ELSE [err |-> FALSE,
          aidTitleMap |-> [k \in DOMAIN aidTitleMap |->
                              IF aidTitleMap[k] # "" THEN aidTitleMap[k]
                              ELSE AuthorityTitle(authority.anime, k)]]

\* removeIndex cutting the list one place after the index
removeIndexAfter(anime, index) ==
    IF index < 1 \/ index > Len(anime) THEN anime ELSE RemoveAt(anime, index + 1)

\* removeIndex (indices are 1-based here)
removeIndex(anime, index) ==
    IF index < 1 \/ index > Len(anime) THEN anime ELSE RemoveAt(anime, index)

\* the test of checkTitle without its guard on the empty authoritative title
MismatchesTitleUnguarded(anime, index, aidTitleMap) ==
    ~EqualFold(anime[index].MainTitle, aidTitleMap[anime[index].AnidbID])

\* the test of checkTitle on one index
MismatchesTitle(anime, index, aidTitleMap) ==
    LET mainTitle == aidTitleMap[anime[index].AnidbID]
    IN  mainTitle # "" /\ ~EqualFold(anime[index].MainTitle, mainTitle)

RECURSIVE checkTitle(_, _, _)
\* checkTitle: returns at the first index it removes
checkTitle(anime, indexes, aidTitleMap) ==
    IF indexes = <<>> THEN anime
    ELSE IF indexes[1] > Len(anime) THEN checkTitle(anime, Tail(indexes), aidTitleMap)
    ELSE IF MismatchesTitle(anime, indexes[1], aidTitleMap) THEN removeIndex(anime, indexes[1])
    ELSE checkTitle(anime, Tail(indexes), aidTitleMap)

\* CheckDupes returning the number of AniDB ids the duplicate members share
CheckDupesCountingGroups(anime, aidTitleMap, authority) ==
    LET indexes == DupeIndexes(anime)
        m0 == InitAidTitleMap(aidTitleMap, anime)
        fetched == DOMAIN m0 # {}
        m1 == IF fetched THEN fillAidTitleMap(m0, authority).aidTitleMap ELSE m0
    IN  [n |-> Cardinality({anime[indexes[k]].AnidbID : k \in DOMAIN indexes}),
         list |-> IF Len(indexes) = 0 THEN anime ELSE checkTitle(anime, indexes, m1),
         err |-> FALSE, aidTitleMap |-> m1, fetched |-> fetched]

\* CheckDupes, whole: [n, list, err, aidTitleMap, fetched]
CheckDupes(anime, aidTitleMap, authority) ==
    LET indexes == DupeIndexes(anime)
        m0 == InitAidTitleMap(aidTitleMap, anime)
        fetched == DOMAIN m0 # {}
        m1 == IF fetched THEN fillAidTitleMap(m0, authority).aidTitleMap ELSE m0
    IN  IF Len(indexes) = 0
        THEN [n |-> 0, list |-> anime, err |-> FALSE, aidTitleMap |-> m1, fetched |-> fetched]
        ELSE [n |-> Len(indexes), list |-> checkTitle(anime, indexes, m1), err |-> FALSE,
              aidTitleMap |-> m1, fetched |-> fetched]

\* NewService: aidTitleMap starts empty
NewAidTitleMap == [k \in {} |-> ""]

(***************************************************************************)
(* Specification of CheckDupes: a list as the last stage file holds it and *)
(* an answer of the title authority.                                       *)
(***************************************************************************)
MaxDedupeList == 4
DedupeShapes ==
    {[t |-> "Show A", x |-> 100, ty |-> "tv"], [t |-> "SHOW A", x |-> 100, ty |-> "tv"],
     [t |-> "Show B", x |-> 100, ty |-> "tv"], [t |-> "Show A", x |-> 200, ty |-> "tv"],
     [t |-> "Show B", x |-> 200, ty |-> "tv"], [t |-> "Show B", x |-> 100, ty |-> "movie"],
     [t |-> "Show B", x |-> 0, ty |-> "tv"]}
\* the entities of a list have increasing MalIDs
DedupeLists ==
    {[i \in DOMAIN sh |-> Anime(sh[i].t, "", "", <<>>, i, sh[i].x, 0, 0, sh[i].ty, "2024-04-01")] :
        sh \in SeqsUpTo(DedupeShapes, MaxDedupeList) \ {<<>>}}
Records100 ==
    {<<>>,
     <<TitleRecord(100, <<TitleEntry("official", "Show B"), TitleEntry("main", "Show A")>>)>>,
     <<TitleRecord(100, <<TitleEntry("official", "Show B")>>)>>}
Records200 == {<<>>, <<TitleRecord(200, <<TitleEntry("main", "Show A")>>)>>}
Authorities ==
    {[ok |-> FALSE, anime |-> <<>>]} \cup
    {[ok |-> TRUE, anime |-> r1 \o r2] : r1 \in Records100, r2 \in Records200}

DedupeInit ==
    /\ pc = "dedupe"
    /\ arg \in [anime : DedupeLists, authority : Authorities]
    /\ res = [done |-> FALSE, n |-> 0, list |-> <<>>, err |-> FALSE, aidTitleMap |-> NewAidTitleMap]
    /\ run = 0 /\ world = <<>> /\ config = <<>> /\ cache = <<>>
    /\ files = <<>> /\ terminal = <<>> /\ trace = <<>>

\* one call of CheckDupes on a fresh service
ApplyCheckDupes ==
    /\ pc = "dedupe" /\ ~res.done
    /\ LET r == CheckDupes(arg.anime, NewAidTitleMap, arg.authority)
       IN  res' = [done |-> TRUE, n |-> r.n, list |-> r.list, err |-> r.err,
                   aidTitleMap |-> r.aidTitleMap]
    /\ UNCHANGED <<pc, arg>> /\ FnFrame

DedupeNext == ApplyCheckDupes

SpecDedupe == DedupeInit /\ [][DedupeNext]_vars

\* the main title the authority gives for an AniDB id ("" when the fetch failed)
Authoritative(aid) ==
    IF arg.authority.ok THEN AuthorityTitle(arg.authority.anime, aid) ELSE ""

\* the members of the duplicate group of AniDB id aid in the input
GroupOf(aid) == {i \in DOMAIN arg.anime : IsDupe(arg.anime, i) /\ arg.anime[i].AnidbID = aid}

\* member i of a duplicate group has a title other than the authoritative one
MismatchingMember(i) ==
    /\ IsDupe(arg.anime, i)
    /\ Authoritative(arg.anime[i].AnidbID) # ""
    /\ ~EqualFold(arg.anime[i].MainTitle, Authoritative(arg.anime[i].AnidbID))

\* C2: one call of CheckDupes removes every member of every duplicate group whose
\* title does not equal, ignoring case, the non-empty authoritative main title
\* of the group's AniDB id.
C2_RemovesEveryMismatch ==
    res.done => \A i \in DOMAIN arg.anime :
                    MismatchingMember(i) => arg.anime[i] \notin Range(res.list)

\* C3: when the title fetch fails or the authority has no main title for the
\* AniDB id of a duplicate group, CheckDupes keeps every member of that group
\* and returns no error.
C3_KeepsGroupWithoutTitle ==
    res.done =>
        /\ ~res.err
        /\ \A i \in DOMAIN arg.anime :
              (IsDupe(arg.anime, i) /\ Authoritative(arg.anime[i].AnidbID) = "")
                  => arg.anime[i] \in Range(res.list)

\* a group with differing titles kept whole because the authority, though it
\* answered and made another group lose a member, has no main title for it
C3_Witness ==
    /\ res.done /\ arg.authority.ok
    /\ Len(res.list) < Len(arg.anime)
    /\ \E i, j \in GroupOf(100) :
          /\ ~EqualFold(arg.anime[i].MainTitle, arg.anime[j].MainTitle)
          /\ Authoritative(100) = ""
          /\ \E k \in DOMAIN arg.authority.anime : arg.authority.anime[k].aid = 100
          /\ arg.anime[i] \in Range(res.list) /\ arg.anime[j] \in Range(res.list)

\* the same group kept whole after the fetch of the titles failed
C3_WitnessFetchFailed ==
    /\ res.done /\ ~arg.authority.ok /\ res.list = arg.anime
    /\ \E i, j \in GroupOf(100) : ~EqualFold(arg.anime[i].MainTitle, arg.anime[j].MainTitle)

(***************************************************************************)
(* The pipeline: App.Run, one action a stage.  A behaviour is a sequence   *)
(* of runs against one world, each run starting from the cache and the     *)
(* files the run before left.                                              *)
(***************************************************************************)
NoBridgeFile == [exists |-> FALSE, body |-> <<>>, fresh |-> FALSE]

NoFiles ==
    [malid |-> NoFile, anidb |-> NoFile, tvdb |-> NoFile, tmdb |-> NoFile,
     shinkro |-> NoFile, animelist |-> NoBridgeFile, unmapped |-> <<>>]

NoScrape == [toScrape |-> <<>>, visited |-> <<>>, backfilled |-> <<>>]
NoFetch == [toFetch |-> <<>>, log |-> <<>>, backfilled |-> <<>>, loaded |-> FALSE]

\* the record of a run that has just started; notes are the notifications sent
NewTrace(f, c) ==
    [start |-> [files |-> f, cache |-> c], stages |-> <<>>, failed |-> FALSE,
     bridgeFetches |-> 0, scrape |-> NoScrape, tmdb |-> NoFetch, notes |-> <<>>]

\* calculateStatistics, without the three percentages
calculateStatistics(animeList, dupeCount) ==
    [TotalMALIDs |-> Len(animeList),
     DupeCount |-> dupeCount,
     MALIDsWithAniDB |-> Cardinality({i \in DOMAIN animeList : animeList[i].AnidbID > 0}),
     TotalMovies |-> Cardinality({i \in DOMAIN animeList : animeList[i].Type = "movie"}),
     MoviesWithTMDB |-> Cardinality({i \in DOMAIN animeList :
                                       animeList[i].Type = "movie" /\ animeList[i].TmdbID > 0}),
     TotalTVShows |-> Cardinality({i \in DOMAIN animeList : animeList[i].Type = "tv"}),
     TVShowsWithTVDB |-> Cardinality({i \in DOMAIN animeList :
                                        animeList[i].Type = "tv" /\ animeList[i].TvdbID > 0})]

SendError == [kind |-> "error"]
SendSuccess(stats) == [kind |-> "success", stats |-> stats]

\* the notifications of Run with the success notification deferred like the
\* error notification and sent whatever the outcome
NotifyAlways(failed, stats) ==
    IF failed THEN <<SendSuccess(stats), SendError>> ELSE <<SendSuccess(stats)>>

\* the notifications Run sends on its way out: SendError from the deferred
\* function when the named result err is set, SendSuccess before return nil
Notify(failed, stats) == IF failed THEN <<SendError>> ELSE <<SendSuccess(stats)>>

\* the record of a run that returns an error from the stage it is in
Failed(t) == [t EXCEPT !.failed = TRUE, !.notes = Notify(TRUE, <<>>)]

Init ==
    /\ pc = "idle"
    /\ run = 0
    /\ world \in Worlds
    /\ config = Config(FetchModeDefault, FetchModeDefault)
    /\ cache = EmptyCache
    /\ files = NoFiles
    /\ terminal = <<>>
    /\ trace = NewTrace(NoFiles, EmptyCache)
    /\ arg = <<>> /\ res = <<>>

\* the answer to the next request of this run for the bridge document
BridgeAnswer ==
    [ok |-> world.bridge.answers[Min(trace.bridgeFetches + 1, Len(world.bridge.answers))],
     body |-> world.bridge.body]

Ran(stage) == [trace EXCEPT !.stages = Append(@, stage)]

\* App.Run up to the first stage: the configuration is read and the cache
\* database opened, which can fail
StartRun ==
    /\ pc \in {"idle", "done", "failed"}
    /\ run < MaxRuns
    /\ run' = run + 1
    /\ config' \in Configs
    /\ \E opened \in BOOLEAN :
          IF opened
          THEN /\ pc' = "GetAnimeIDs"
               /\ trace' = NewTrace(files, cache)
          ELSE /\ pc' = "failed"
               /\ trace' = Failed(NewTrace(files, cache))
    /\ UNCHANGED <<world, cache, files, terminal, arg, res>>

\* malService.GetAnimeIDs
GetAnimeIDs ==
    /\ pc = "GetAnimeIDs"
    /\ LET r == GetAnimeIDsResult(world.pages, cache)
       IN  IF r.err
           THEN /\ pc' = "failed"
                /\ trace' = Failed(Ran("GetAnimeIDs"))
                /\ UNCHANGED <<files, cache>>
           ELSE /\ pc' = "ScrapeAniDBIDs"
                /\ files' = [files EXCEPT !.malid = Store(r.list)]
                /\ cache' = r.cache
                /\ trace' = Ran("GetAnimeIDs")
    /\ UNCHANGED <<run, world, config, terminal, arg, res>>

\* malService.ScrapeAniDBIDs
ScrapeAniDBIDs ==
    /\ pc = "ScrapeAniDBIDs"
    /\ LET r == ScrapeAniDBIDsResult(config.AniDBMode, Get(files.malid), cache, world.detail)
       IN  /\ files' = [files EXCEPT !.anidb = Store(r.list)]
           /\ cache' = r.cache
           /\ trace' = [Ran("ScrapeAniDBIDs") EXCEPT
                          !.scrape = [toScrape |-> r.toScrape, visited |-> r.visited,
                                      backfilled |-> r.backfilled]]
    /\ pc' = "GetTvdbIDs"
    /\ UNCHANGED <<run, world, config, terminal, arg, res>>

\* tvdbService.GetTvdbIDs
GetTvdbIDs ==
    /\ pc = "GetTvdbIDs"
    /\ LET load == NewAnimeList(files.animelist, BridgeAnswer, world.bridge.writable)
           al == [tvdbMap |-> load.tvdbMap, tmdbMap |-> load.tmdbMap]
           fetches == trace.bridgeFetches + (IF load.fetched THEN 1 ELSE 0)
       IN  IF load.err
           THEN /\ pc' = "failed"
                /\ trace' = [Failed(Ran("GetTvdbIDs")) EXCEPT !.bridgeFetches = fetches]
                /\ UNCHANGED files
           ELSE /\ pc' = "GetTmdbIds"
                /\ files' = [files EXCEPT !.tvdb = Store(SetTvdbIDs(Get(files.anidb), al)),
                                          !.animelist = load.file]
                /\ trace' = [Ran("GetTvdbIDs") EXCEPT !.bridgeFetches = fetches]
    /\ UNCHANGED <<run, world, config, cache, terminal, arg, res>>

\* tmdbService.GetTmdbIds
GetTmdbIds ==
    /\ pc = "GetTmdbIds"
    /\ LET load == NewAnimeList(files.animelist, BridgeAnswer, world.bridge.writable)
           r == GetTmdbIdsResult(config.TMDBMode, Get(files.tvdb), cache, load, world.search)
           called == Len(r.toFetch) > 0
       IN  /\ files' = [files EXCEPT !.tmdb = Store(r.list),
                                     !.unmapped = updateMasterFiles(r.list),
                                     !.animelist = IF called THEN load.file ELSE @]
           /\ cache' = r.cache
           /\ trace' = [Ran("GetTmdbIds") EXCEPT
                          !.bridgeFetches = @ + (IF called /\ load.fetched THEN 1 ELSE 0),
                          !.tmdb = [toFetch |-> r.toFetch, log |-> r.log,
                                    backfilled |-> r.backfilled, loaded |-> r.loaded]]
    /\ pc' = "CheckDupes"
    /\ UNCHANGED <<run, world, config, terminal, arg, res>>

\* the end of App.Run: dedupeService.CheckDupes and the store of the terminal list
Dedupe ==
    /\ pc = "CheckDupes"
    /\ LET r == CheckDupes(Get(files.tmdb), NewAidTitleMap, world.authority)
       IN  /\ files' = [files EXCEPT !.shinkro = Store(r.list)]
           /\ terminal' = Append(terminal, [config |-> config, list |-> Store(r.list).doc])
           /\ trace' = [Ran("CheckDupes") EXCEPT
                          !.notes = Notify(FALSE, calculateStatistics(r.list, r.n))]
    /\ pc' = "done"
    /\ UNCHANGED <<run, world, config, cache, arg, res>>

Next == StartRun \/ GetAnimeIDs \/ ScrapeAniDBIDs \/ GetTvdbIDs \/ GetTmdbIds \/ Dedupe

Spec == Init /\ [][Next]_vars

\* the stage about to run is not run in fetch mode all
NotAllMode ==
    /\ ~(pc = "ScrapeAniDBIDs" /\ config.AniDBMode = FetchModeAll)
    /\ ~(pc = "GetTmdbIds" /\ config.TMDBMode = FetchModeAll)

Holds(m, id) == id \in DOMAIN m /\ m[id] > 0

BridgeTmdbID(aid) ==
    LET m == buildMap(world.bridge.body, "tmdbid", EmptyMap)
    IN  IF aid \in DOMAIN m THEN m[aid] ELSE 0

\* candidate c of the movie-database stage has an AniDB id the loaded bridge table maps
BridgeCandidate(c) == c.AnidbID > 0 /\ trace.tmdb.loaded /\ BridgeTmdbID(c.AnidbID) > 0

\* C4: for a candidate of the movie-database stage with an AniDB id > 0 that the
\* bridge table maps to a TMDB id, no search request is issued, in any fetch
\* mode, and the candidate carries the bridge table's id in the stage's output.
C4_BridgePrecedence ==
    \A k \in DOMAIN trace.tmdb.log :
        LET c == trace.tmdb.log[k]
        IN  BridgeCandidate(c) =>
                /\ c.queries = <<>>
                /\ Get(files.tmdb)[c.idx].TmdbID = BridgeTmdbID(c.AnidbID)

\* C5: two complete runs in a row in default mode against the same external
\* answers, the second from the cache of the first, end with the same terminal list.
C5_Idempotent ==
    (/\ Len(terminal) = 2
     /\ terminal[1].config = Config(FetchModeDefault, FetchModeDefault)
     /\ terminal[2].config = Config(FetchModeDefault, FetchModeDefault))
        => terminal[1].list = terminal[2].list

\* no two entries of the list have the same MalID
UniqueMalIDs(list) == \A i, j \in DOMAIN list : i # j => list[i].MalID # list[j].MalID

\* C9: the list ranking ingestion writes in a run never has two entities with
\* the same MalID, whatever pages the ranking source answers with.
C9_UniquePrimaryIDs ==
    (trace.stages # <<>> /\ files.malid.exists) => UniqueMalIDs(Get(files.malid))

\* a page of the ranking source failed, gave a status other than 200 or did not decode
SomePageFails == \E k \in DOMAIN world.pages : world.pages[k].status # PageOK

\* C10: when a ranking page request fails, is not a 200 or does not decode,
\* ingestion returns an error, malid.json is not written and no later stage of
\* the run is executed.
C10_IngestionFailureIsFatal ==
    (trace.stages # <<>> /\ SomePageFails) =>
        /\ pc = "failed"
        /\ trace.stages = <<"GetAnimeIDs">>
        /\ files.malid = trace.start.files.malid

\* the second page did not decode after a first page that did: the run stopped
\* in ingestion and left no malid.json
C10_Witness ==
    /\ pc = "failed" /\ trace.stages = <<"GetAnimeIDs">>
    /\ Len(world.pages) = 2 /\ world.pages[2].status = "badjson"
    /\ ~files.malid.exists /\ files = trace.start.files /\ cache = trace.start.cache

(***************************************************************************)
(* The scrape stage and the movie-database stage candidate by candidate    *)
(* (specification SpecSteps): one action per pass of the Visit loop and of *)
(* the candidate loop, so that every state inside a stage is a point at    *)
(* which the run can be interrupted.  res holds the locals of the stage in *)
(* progress: the list a, the candidates toDo and the position k in them.   *)
(***************************************************************************)
\* caches a run can start from: the empty one, and ones earlier runs left,
\* the last of them under a ranking that gave entity 1 the type "movie"
StepCaches ==
    {EmptyCache,
     UpsertAniDB(EmptyCache, 2, 200),
     UpsertTMDB(UpsertAniDB(EmptyCache, 1, 100), 2, 901),
     UpsertTMDB(EmptyCache, 1, 902)}

\* the worlds whose ranking pages all decode
StepWorlds == {w \in Worlds : \A k \in DOMAIN w.pages : w.pages[k].status = PageOK}

\* the run has passed ranking ingestion
StepsInit ==
    /\ world \in StepWorlds
    /\ config \in Configs
    /\ \E c \in StepCaches :
          LET r == GetAnimeIDsResult(world.pages, c)
          IN  /\ cache = r.cache
              /\ files = [NoFiles EXCEPT !.malid = Store(r.list)]
              /\ trace = [NewTrace(NoFiles, c) EXCEPT !.stages = <<"GetAnimeIDs">>]
    /\ pc = "ScrapeAniDBIDs"
    /\ run = 1
    /\ terminal = <<>>
    /\ arg = <<>> /\ res = <<>>

\* ScrapeAniDBIDs up to the Visit loop; with nothing to scrape, to its end
ScrapeBegin ==
    /\ pc = "ScrapeAniDBIDs"
    /\ LET anidbMap == GetAniDBIDs(cache)
           a == BackfillAniDB(Get(files.malid), anidbMap)
           toScrape == filterAnimeToScrape(config.AniDBMode, a, CachedMalIDs(anidbMap))
       IN  IF Len(toScrape) = 0
           THEN /\ files' = [files EXCEPT !.anidb = Store(a)]
                /\ pc' = "GetTvdbIDs"
                /\ res' = <<>>
                /\ trace' = [Ran("ScrapeAniDBIDs") EXCEPT !.scrape.backfilled = a]
           ELSE /\ res' = [a |-> a, toDo |-> toScrape, k |-> 1, visited |-> <<>>]
                /\ pc' = "Visit"
                /\ trace' = [trace EXCEPT !.scrape.backfilled = a, !.scrape.toScrape = toScrape]
                /\ UNCHANGED files
    /\ UNCHANGED <<run, world, config, cache, terminal, arg>>

\* one pass of the Visit loop with its callbacks
ScrapeVisit ==
    /\ pc = "Visit"
    /\ res.k <= Len(res.toDo)
    /\ LET malID == res.a[res.toDo[res.k]].MalID
           st == VisitOne([a |-> res.a, cache |-> cache, visited |-> res.visited],
                          malID, world.detail[malID])
       IN  /\ res' = [res EXCEPT !.a = st.a, !.visited = st.visited, !.k = @ + 1]
           /\ cache' = st.cache
    /\ UNCHANGED <<pc, run, world, config, files, terminal, trace, arg>>

\* the end of ScrapeAniDBIDs: the store of malid-anidbid.json
ScrapeStore ==
    /\ pc = "Visit"
    /\ res.k > Len(res.toDo)
    /\ files' = [files EXCEPT !.anidb = Store(res.a)]
    /\ trace' = [Ran("ScrapeAniDBIDs") EXCEPT !.scrape.visited = res.visited]
    /\ pc' = "GetTvdbIDs"
    /\ res' = <<>>
    /\ UNCHANGED <<run, world, config, cache, terminal, arg>>

\* GetTmdbIds up to the candidate loop; with nothing to fetch, to its end
MovieBegin ==
    /\ pc = "GetTmdbIds"
    /\ LET cachedTmdbIDs == GetTMDBIDs(cache)
           a == BackfillTMDB(Get(files.tvdb), cachedTmdbIDs)
           toFetch == filterMoviesToFetch(config.TMDBMode, a, cachedTmdbIDs)
           load == NewAnimeList(files.animelist, BridgeAnswer, world.bridge.writable)
       IN  IF Len(toFetch) = 0
           THEN /\ files' = [files EXCEPT !.tmdb = Store(a), !.unmapped = updateMasterFiles(a)]
                /\ pc' = "CheckDupes"
                /\ res' = <<>>
                /\ trace' = [Ran("GetTmdbIds") EXCEPT !.tmdb.backfilled = a]
           ELSE /\ res' = [a |-> a, a0 |-> a, toDo |-> toFetch, k |-> 1, log |-> <<>>,
                           al |-> [loaded |-> ~load.err, tvdbMap |-> load.tvdbMap,
                                   tmdbMap |-> load.tmdbMap]]
                /\ files' = [files EXCEPT !.animelist = load.file]
                /\ pc' = "Fetch"
                /\ trace' = [trace EXCEPT
                               !.bridgeFetches = @ + (IF load.fetched THEN 1 ELSE 0),
                               !.tmdb.backfilled = a, !.tmdb.toFetch = toFetch,
                               !.tmdb.loaded = ~load.err]
    /\ UNCHANGED <<run, world, config, cache, terminal, arg>>

\* one pass of the candidate loop
MovieFetch ==
    /\ pc = "Fetch"
    /\ res.k <= Len(res.toDo)
    /\ LET anime == res.a0[res.toDo[res.k]]
           st == FetchOne([a |-> res.a, cache |-> cache, log |-> res.log],
                          res.toDo[res.k], anime, malIDToIndex(res.a, anime.MalID),
                          BridgeIDOf(res.al, anime), ResolveByAPI(anime, world.search))
       IN  /\ res' = [res EXCEPT !.a = st.a, !.log = st.log, !.k = @ + 1]
           /\ cache' = st.cache
    /\ UNCHANGED <<pc, run, world, config, files, terminal, trace, arg>>

\* the end of GetTmdbIds: the store of malid-anidbid-tvdbid-tmdbid.json
MovieStore ==
    /\ pc = "Fetch"
    /\ res.k > Len(res.toDo)
    /\ files' = [files EXCEPT !.tmdb = Store(res.a), !.unmapped = updateMasterFiles(res.a)]
    /\ trace' = [Ran("GetTmdbIds") EXCEPT !.tmdb.log = res.log]
    /\ pc' = "CheckDupes"
    /\ res' = <<>>
    /\ UNCHANGED <<run, world, config, cache, terminal, arg>>

StepsNext ==
    ScrapeBegin \/ ScrapeVisit \/ ScrapeStore \/ GetTvdbIDs \/ MovieBegin \/ MovieFetch
    \/ MovieStore

SpecSteps == StepsInit /\ [][StepsNext]_vars

\* the stages run pass by pass end as the stages run whole
StepsAgree ==
    /\ (pc = "GetTvdbIDs" /\ trace.stages = <<"GetAnimeIDs", "ScrapeAniDBIDs">>) =>
          LET r == ScrapeAniDBIDsResult(config.AniDBMode, Get(files.malid), trace.start.cache,
                                        world.detail)
          IN  files.anidb = Store(r.list) /\ cache.anidb = r.cache.anidb
    /\ pc = "CheckDupes" => files.tmdb.exists

\* the scrape stage has determined an AniDB id for malID: its page was fetched
\* and carries an AniDB link (the last link is the one that stays)
ScrapedID(visited, malID) ==
    IF /\ malID \in Range(visited)
       /\ world.detail[malID].ok
       /\ world.detail[malID].links # <<>>
    THEN world.detail[malID].links[Len(world.detail[malID].links)]
    ELSE 0

\* pass j of the candidate loop is the last so far to have determined a TMDB id
\* for its MalID
LastFound(log, j) ==
    /\ log[j].tmdbID > 0
    /\ \A n \in (j + 1)..Len(log) : ~(log[n].MalID = log[j].MalID /\ log[n].tmdbID > 0)

Ingested(file) ==
    [i \in DOMAIN Get(file) |->
        [MalID |-> Get(file)[i].MalID, MainTitle |-> Get(file)[i].MainTitle,
         EnglishTitle |-> Get(file)[i].EnglishTitle, Type |-> Get(file)[i].Type,
         ReleaseDate |-> Get(file)[i].ReleaseDate]]

\* the list is in ascending order of MalID
Ascending(list) == \A i, j \in DOMAIN list : i < j => list[i].MalID <= list[j].MalID

\* t is s with the elements at the indices of some set D left out, every one
\* of D satisfying Removable; dedupe removes at most one entity a call
SubsequenceBy(t, s, Removable(_)) ==
    \/ t = s
    \/ \E i \in DOMAIN s : Removable(i) /\ t = RemoveAt(s, i)

\* C12: the list ranking ingestion writes is in ascending MalID order, every
\* later artifact holds the same entities in the same order, and the terminal
\* list is that list without the entities duplicate resolution removed (members
\* of a duplicate group); nothing is reordered, duplicated or added.
C12_TerminalIsSubsequence ==
    /\ (trace.stages # <<>> /\ ~trace.failed) => Ascending(Get(files.malid))
    /\ pc = "done" =>
          /\ Ingested(files.anidb) = Ingested(files.malid)
          /\ Ingested(files.tvdb) = Ingested(files.malid)
          /\ Ingested(files.tmdb) = Ingested(files.malid)
          /\ LET IsRemovable(i) == IsDupe(Get(files.tmdb), i)
             IN  SubsequenceBy(Ingested(files.shinkro), Ingested(files.malid),
                               IsRemovable)

\* a run whose ranking pages came out of MalID order and whose duplicate
\* resolution removed an entity
C12_Witness ==
    /\ pc = "done"
    /\ Len(world.pages) = 2
    /\ world.pages[1].data[1].id > world.pages[2].data[1].id
    /\ Len(files.shinkro.doc) < Len(files.malid.doc)
    /\ \E i \in DOMAIN Get(files.tmdb) : Get(files.tmdb)[i].TmdbID > 0

(***************************************************************************)
(* Store followed by Get on one list (specification SpecRoundTrip).        *)
(***************************************************************************)
MaxStoredList == 2

\* the lists stored: MalIDs 1, 2, ... and every other field of an entity its
\* zero value or another
RoundTripAnime(id) ==
    {Anime("Show A", en, ja, IF ja = "" THEN <<>> ELSE <<"Film C">>, id, aid, tv, tm, "tv", d) :
        en \in {"", "Film C"}, ja \in {"", "Film D"}, aid \in {0, 100},
        tv \in {0, 700}, tm \in {0, 900}, d \in {"", "2024-04-01"}}

RoundTripLists ==
    {l \in SeqsUpTo(UNION {RoundTripAnime(id) : id \in 1..MaxStoredList}, MaxStoredList) :
        \A i \in DOMAIN l : l[i].MalID = i}

RoundTripInit ==
    /\ arg \in {[list |-> l] : l \in RoundTripLists}
    /\ files = NoFiles
    /\ res = [read |-> <<>>, done |-> FALSE]
    /\ pc = "store"
    /\ run = 0 /\ world = <<>> /\ config = <<>> /\ cache = <<>>
    /\ terminal = <<>> /\ trace = <<>>

\* FileRepository.Store of the list
ApplyStore ==
    /\ pc = "store"
    /\ files' = [files EXCEPT !.shinkro = Store(arg.list)]
    /\ pc' = "get"
    /\ UNCHANGED <<run, world, config, cache, terminal, trace, arg, res>>

\* FileRepository.Get of the file
ApplyGet ==
    /\ pc = "get"
    /\ res' = [read |-> Get(files.shinkro), done |-> TRUE]
    /\ pc' = "read"
    /\ UNCHANGED <<run, world, config, cache, files, terminal, trace, arg>>

RoundTripNext == ApplyStore \/ ApplyGet

SpecRoundTrip == RoundTripInit /\ [][RoundTripNext]_vars

\* C13: a list stored and read back has the same length and order, and every
\* entity has the title, English title, MalID, AniDB, TVDB and TMDB ids, type
\* and release date it had; the Japanese title and the synonyms come back empty.
C13_RoundTrip ==
    res.done =>
        /\ Len(res.read) = Len(arg.list)
        /\ \A i \in DOMAIN arg.list :
              /\ res.read[i] = [arg.list[i] EXCEPT !.JapaneseTitle = "", !.Synonyms = <<>>]

\* a list read back whose second entity had every omitempty field zero and
\* whose first had none, and lost its Japanese title and synonyms
C13_Witness ==
    /\ res.done /\ Len(arg.list) = 2
    /\ arg.list[1].EnglishTitle # "" /\ arg.list[1].AnidbID > 0
    /\ arg.list[1].TvdbID > 0 /\ arg.list[1].TmdbID > 0
    /\ arg.list[1].JapaneseTitle # "" /\ arg.list[1].Synonyms # <<>>
    /\ res.read[1].JapaneseTitle = "" /\ res.read[1].Synonyms = <<>>
    /\ arg.list[2].EnglishTitle = "" /\ arg.list[2].AnidbID = 0
    /\ arg.list[2].TvdbID = 0 /\ arg.list[2].TmdbID = 0 /\ arg.list[2].ReleaseDate = ""
    /\ DOMAIN files.shinkro.doc[2] = {"title", "malid", "type", "releaseDate"}

\* ---------------------------------------------------------------------------
\* Outcome notifications of a run
\* ---------------------------------------------------------------------------

\* the stages of App.Run in the order it calls them
StageOrder == <<"GetAnimeIDs", "ScrapeAniDBIDs", "GetTvdbIDs", "GetTmdbIds", "CheckDupes">>

CacheIDs == {1, 2}
CacheAniDBIDs == {0, 100, 200}
CacheTMDBIDs == {901, 902}
CacheDates == {"2020-05-01", "2024-04-01"}
CacheTypes == {"tv", "movie"}

NothingSupplied ==
    [supplied |-> {}, release_date |-> "", type |-> "", anidb_id |-> 0, tmdb_id |-> 0]

\* last after an upsert for malID that supplied value v for field f
Supply(last, malID, f, v) ==
    [last EXCEPT ![malID] = [@ EXCEPT !.supplied = @ \cup {f}, ![f] = v]]

CacheInit ==
    /\ pc = "cache"
    /\ run = 0
    /\ world = CHOOSE w \in Worlds : TRUE
    /\ config = Config(FetchModeDefault, FetchModeDefault)
    /\ cache = EmptyCache
    /\ files = NoFiles
    /\ terminal = <<>>
    /\ trace = NewTrace(NoFiles, EmptyCache)
    /\ arg = <<>>
    /\ res = [last |-> [id \in CacheIDs |-> NothingSupplied], ids |-> EmptyMap, fresh |-> FALSE]

\* the ingestion stage's upsert of one entity (storeAnimeID)
IngestUpsert ==
    /\ \E id \in CacheIDs, d \in CacheDates, t \in CacheTypes :
          /\ cache' = UpsertMAL(cache, id, d, t)
          /\ res' = [res EXCEPT !.fresh = FALSE,
                                !.last = Supply(Supply(@, id, "release_date", d), id, "type", t)]
    /\ UNCHANGED <<pc, run, world, config, files, terminal, trace, arg>>

\* the upsert of a scraped identifier (OnHTML), or of the identifier the
\* migration of the page cache found, which is 0 for a page without a link
ScrapeUpsert ==
    /\ \E id \in CacheIDs, x \in CacheAniDBIDs :
          /\ cache' = UpsertAniDB(cache, id, x)
          /\ res' = [res EXCEPT !.fresh = FALSE, !.last = Supply(@, id, "anidb_id", x)]
    /\ UNCHANGED <<pc, run, world, config, files, terminal, trace, arg>>

\* last after the movie-database stage's entry: its zero identifiers are
\* fields it does not supply
SupplyEntry(last, entry) ==
    LET l1 == Supply(Supply(last, entry.MalID, "release_date", entry.ReleaseDate),
                     entry.MalID, "type", entry.Type)
        l2 == IF entry.AnidbID > 0 THEN Supply(l1, entry.MalID, "anidb_id", entry.AnidbID) ELSE l1
    IN  IF entry.TmdbID > 0 THEN Supply(l2, entry.MalID, "tmdb_id", entry.TmdbID) ELSE l2

\* the movie-database stage's upsert of a resolved movie
MovieUpsert ==
    /\ \E id \in CacheIDs, x \in CacheAniDBIDs, m \in CacheTMDBIDs, d \in CacheDates :
          LET entry == [MalID |-> id, AnidbID |-> x, TmdbID |-> m,
                        ReleaseDate |-> d, Type |-> "movie"]
          IN  /\ cache' = UpsertEntry(cache, entry)
              /\ res' = [res EXCEPT !.fresh = FALSE, !.last = SupplyEntry(@, entry)]
    /\ UNCHANGED <<pc, run, world, config, files, terminal, trace, arg>>

\* a stage reads the identifier map
ReadAniDBIDs ==
    /\ res' = [res EXCEPT !.fresh = TRUE, !.ids = GetAniDBIDs(cache)]
    /\ UNCHANGED <<pc, run, world, config, cache, files, terminal, trace, arg>>

CacheNext == IngestUpsert \/ ScrapeUpsert \/ MovieUpsert \/ ReadAniDBIDs

SpecCache == CacheInit /\ [][CacheNext]_vars

\* the stored value of field f of mal_id id (of a row that exists)
Stored(c, id, f) ==
    CASE f = "release_date" -> c.mal[id].release_date
      [] f = "type" -> c.mal[id].type
      [] f = "anidb_id" -> c.anidb[id]
      [] f = "tmdb_id" -> c.tmdb[id]

\* the table that holds field f
TableOf(c, f) ==
    CASE f \in {"release_date", "type"} -> c.mal
      [] f = "anidb_id" -> c.anidb
      [] f = "tmdb_id" -> c.tmdb

CacheFields == {"release_date", "type", "anidb_id", "tmdb_id"}

C16_GetAniDBIDsPositive ==
    (pc = "cache" /\ res.fresh) =>
        /\ \A id \in DOMAIN res.ids : res.ids[id] > 0
        /\ \A id \in DOMAIN cache.anidb :
              cache.anidb[id] > 0 => (id \in DOMAIN res.ids /\ res.ids[id] = cache.anidb[id])

\* ---------------------------------------------------------------------------
\* The count CheckDupes returns
\* ---------------------------------------------------------------------------

\* the AniDB ids that have a duplicate group in the input
DupeGroups == {arg.anime[i].AnidbID : i \in {j \in DOMAIN arg.anime : IsDupe(arg.anime, j)}}

\* the members of all duplicate groups of the input
DupeMembers == {i \in DOMAIN arg.anime : IsDupe(arg.anime, i)}

\* C17 as stated: the integer CheckDupes returns is the number of duplicate
\* groups of its input (sets of more than one "tv" entity sharing an AniDB id
\* > 0).
C17_CountsGroups == (pc = "dedupe" /\ res.done) => res.n = Cardinality(DupeGroups)

\* C17, amended: the integer CheckDupes returns is the number of entities that
\* belong to a duplicate group (a group of k members counts k), which is at
\* least twice the number of groups.
C17_CountsMembers ==
    (pc = "dedupe" /\ res.done) =>
        /\ res.n = Cardinality(DupeMembers)
        /\ res.n >= 2 * Cardinality(DupeGroups)

\* two groups of two members: the count is 4
C17_Witness ==
    /\ pc = "dedupe" /\ res.done
    /\ Cardinality(DupeGroups) = 2
    /\ res.n = 4

\* ---------------------------------------------------------------------------
\* A detail page without an AniDB link
\* ---------------------------------------------------------------------------

\* the detail page of malID is fetched and carries no AniDB link
Linkless(malID) == world.detail[malID].ok /\ world.detail[malID].links = <<>>

\* C18: the pass of the Visit loop over a candidate whose fetched detail page
\* has no AniDB link leaves the whole cache and every entity of the list as
\* they were, is not an error, and the loop goes on.
C18_LinklessPageWritesNothing ==
    [][(pc = "Visit" /\ res.k <= Len(res.toDo) /\ Linkless(res.a[res.toDo[res.k]].MalID)) =>
          /\ cache' = cache
          /\ res'.a = res.a
          /\ res'.k = res.k + 1
          /\ pc' = "Visit"
          /\ ~trace'.failed]_vars

\* the page just visited had no link; its entity has no AniDB id and the
\* cache no row for it
C18_Witness ==
    /\ pc = "Visit"
    /\ res.k > 1
    /\ Linkless(res.a[res.toDo[res.k - 1]].MalID)
    /\ res.visited # <<>>
    /\ res.visited[Len(res.visited)] = res.a[res.toDo[res.k - 1]].MalID
    /\ res.a[res.toDo[res.k - 1]].AnidbID = 0
    /\ res.a[res.toDo[res.k - 1]].MalID \notin DOMAIN cache.anidb

\* ---------------------------------------------------------------------------
\* The back-fill of cached AniDB ids
\* ---------------------------------------------------------------------------

\* C19: once the scrape stage has ended, in every fetch mode, every entity
\* whose MalID the cache mapped to an AniDB id > 0 when the run started got
\* that id in the back-fill, and in modes skip, missing and default the
\* stage's artifact carries it and the entity's detail page was not fetched.
C19_BackfillRegardlessOfMode ==
    (pc = "GetTvdbIDs" /\ ~trace.failed) =>
        LET anidbMap == trace.start.cache.anidb
            a == trace.scrape.backfilled
        IN  \A i \in DOMAIN a :
                (a[i].MalID \in DOMAIN anidbMap /\ anidbMap[a[i].MalID] > 0) =>
                    /\ a[i].AnidbID = anidbMap[a[i].MalID]
                    /\ config.AniDBMode \in {FetchModeSkip, FetchModeMissing, FetchModeDefault} =>
                          /\ Get(files.anidb)[i].AnidbID = anidbMap[a[i].MalID]
                          /\ a[i].MalID \notin Range(trace.scrape.visited)

(***************************************************************************)
(* SpecScore: the API branch of the movie-database stage on one movie, as  *)
(* the stage reads it from its input file, and the answers of the search   *)
(* API to its title and to the title variation "Film C".                   *)
(***************************************************************************)
MaxResults == 2

\* results by what findBestMatch and calculateScore make of them for a movie
\* "Film C the Movie" of 2020-05-01; primary tells the two searches' ids apart
ScoreResults(primary) ==
    LET id(n) == (IF primary THEN 900 ELSE 950) + n
    IN  {Result(id(1), "Film C the Movie", "", "2020-05-04", 100, 5000, {16}, FALSE),
         Result(id(2), "Film C", "", "2020-05-04", 0, 0, {16}, FALSE),
         Result(id(3), "Film C", "", "2020-11-20", 0, 0, {}, FALSE),
         Result(id(4), "Film C the Movie", "", "2019-07-01", 100, 5000, {16}, FALSE),
         Result(id(5), "Film C the Movie", "", "2020-05-04", 100, 5000, {16}, TRUE),
         Result(id(6), "Film C the Movie", "", "2020-05-04", 100, 5000, {16, 99}, FALSE),
         Result(id(7), "Show B", "", "2020-05-04", 100, 5000, {16}, FALSE),
         Result(id(8), "Film C", "", "2020-05-01", 0, 0, {}, FALSE),
         Result(id(9), "Show B", "Show A", "2020-05-04", 100, 5000, {16}, FALSE)}

ScoreResponses(primary) ==
    {FailedResponse} \cup
    {Response(r, Len(r)) : r \in SeqsUpTo(ScoreResults(primary), IF primary THEN MaxResults ELSE 1)}

ScoreAnime ==
    {Anime("Film C the Movie", "", "", <<>>, 2, 0, 0, 0, "movie", d) : d \in {"2020-05-01", ""}}

ScoreInit ==
    /\ pc = "score"
    /\ arg \in {[anime |-> a, search |-> ("Film C the Movie" :> r1) @@ ("Film C" :> r2)] :
                   a \in ScoreAnime, r1 \in ScoreResponses(TRUE), r2 \in ScoreResponses(FALSE)}
    /\ res = [done |-> FALSE, r |-> <<>>]
    /\ run = 0 /\ world = <<>> /\ config = <<>> /\ cache = <<>>
    /\ files = <<>> /\ terminal = <<>> /\ trace = <<>>

\* the API branch of one pass of the candidate loop
ApplyResolve ==
    /\ pc = "score" /\ ~res.done
    /\ res' = [done |-> TRUE, r |-> ResolveByAPI(arg.anime, arg.search)]
    /\ UNCHANGED <<pc, arg>> /\ FnFrame

ScoreNext == ApplyResolve

SpecScore == ScoreInit /\ [][ScoreNext]_vars

\* the results of a search that findBestMatch scores: the only result, or of
\* several the ones that are no video, no documentary and of the movie's year
ScoredCandidates(anime, results) ==
    IF Len(results) = 1 THEN {1}
    ELSE {k \in DOMAIN results :
            /\ ~results[k].video
            /\ 99 \notin results[k].genre_ids
            /\ getYear(results[k].release_date) = getYear(anime.ReleaseDate)}

\* result k of the response to query q is a scored candidate with id tmdbID
\* that scores at least 50 and no less than any scored candidate of the response
AcceptableIn(q, tmdbID) ==
    LET tmdb == searchTMDB(arg.search, q)
        candidates == ScoredCandidates(arg.anime, tmdb.results)
    IN  /\ tmdb.ok
        /\ \E k \in candidates :
              /\ tmdb.results[k].id = tmdbID
              /\ calculateScore(arg.anime, tmdb.results[k]) >= 50 * ScoreScale
              /\ \A j \in candidates :
                    calculateScore(arg.anime, tmdb.results[j])
                        <= calculateScore(arg.anime, tmdb.results[k])

\* C20: a movie that the exact-match shortcut did not resolve (the bridge
\* table is not consulted in this branch) gets a TMDB id only from a result
\* of one of its searches that scores at least 50 and is a highest-scoring one
\* among the scored candidates of that search; otherwise it gets none.
C20_ScoreThreshold ==
    (pc = "score" /\ res.done /\ res.r.how # "old") =>
        IF res.r.matched
        THEN /\ res.r.how = "score"
             /\ res.r.tmdbID > 0
             /\ \E k \in DOMAIN res.r.queries : AcceptableIn(res.r.queries[k], res.r.tmdbID)
        ELSE res.r.tmdbID = 0

\* two scored candidates of the first search, both above the threshold: the
\* higher one (90 against 55), which comes second, is accepted
C20_Witness ==
    /\ pc = "score" /\ res.done
    /\ res.r.how = "score"
    /\ Len(arg.search["Film C the Movie"].results) = 2
    /\ arg.search["Film C the Movie"].results[1].id = 902
    /\ arg.search["Film C the Movie"].results[2].id = 901
    /\ res.r.tmdbID = 901

\* ---------------------------------------------------------------------------
\* The title gate of calculateScore
\* ---------------------------------------------------------------------------

\* two titles that are both present are equal, case aside, or one contains the other
Overlap(x, y) ==
    LET a == ToLower(TrimSpace(x))
        b == ToLower(TrimSpace(y))
    IN  a # "" /\ b # "" /\ (a = b \/ Contains(a, b) \/ Contains(b, a))

\* neither title of the result overlaps with a title of the entity
NoTitleOverlap(anime, result) ==
    \A x \in {anime.MainTitle, anime.EnglishTitle, anime.JapaneseTitle},
       y \in {result.title, result.original_title} : ~Overlap(x, y)

\* the results of the responses the search API has for the movie
SearchResults == UNION {Range(arg.search[q].results) : q \in DOMAIN arg.search}

PassesPreFilter(anime, r) ==
    /\ ~r.video
    /\ 99 \notin r.genre_ids
    /\ getYear(r.release_date) = getYear(anime.ReleaseDate)

\* C22: a result selected by scoring from a response of more than one result
\* is not flagged as video, has no genre 99 and has the release year of the
\* entity: so for what findBestMatch returns on every such response, and so
\* for the id the API branch accepts by score.
C22_PreFilter ==
    pc = "score" =>
        \A q \in DOMAIN arg.search :
            LET results == arg.search[q].results
                best == findBestMatch(arg.anime, results)
            IN  Len(results) > 1 =>
                  /\ best.nil \/ \A r \in Range(results) :
                                    r.id = best.ID => PassesPreFilter(arg.anime, r)
                  /\ (res.done /\ res.r.how = "score") =>
                        \A r \in Range(results) :
                            r.id = res.r.tmdbID => PassesPreFilter(arg.anime, r)

\* the response holds a video that would score 95 and a result scoring 55:
\* the second is accepted
C22_Witness ==
    /\ pc = "score" /\ res.done
    /\ res.r.how = "score"
    /\ Len(arg.search["Film C the Movie"].results) = 2
    /\ arg.search["Film C the Movie"].results[1].video
    /\ calculateScore(arg.anime, arg.search["Film C the Movie"].results[1]) >= 90 * ScoreScale
    /\ arg.search["Film C the Movie"].results[2].id = 902
    /\ res.r.tmdbID = 902

\* ---------------------------------------------------------------------------
\* The exact-match shortcut
\* ---------------------------------------------------------------------------

\* the response to the primary search of the movie
PrimaryResponse ==
    searchTMDB(arg.search, IF arg.anime.EnglishTitle # "" THEN arg.anime.EnglishTitle
                           ELSE arg.anime.MainTitle)

\* the positions of the results of the primary search dated as the entity is
DateEqual == {k \in DOMAIN PrimaryResponse.results :
                PrimaryResponse.results[k].release_date = arg.anime.ReleaseDate}

\* C23: after a successful primary search the id of the first result dated
\* exactly as the entity, or of the sole result, is accepted with no further
\* search; when no result is dated so and the results are not exactly one,
\* the shortcut accepts nothing.
C23_ExactMatchShortcut ==
    (pc = "score" /\ res.done /\ arg.anime.ReleaseDate # "" /\ PrimaryResponse.ok) =>
        IF DateEqual # {}
        THEN /\ res.r.how = "old"
             /\ res.r.tmdbID =
                   PrimaryResponse.results[CHOOSE k \in DateEqual : \A j \in DateEqual : k <= j].id
             /\ Len(res.r.queries) = 1
        ELSE IF Len(PrimaryResponse.results) = 1
        THEN /\ res.r.how = "old"
             /\ res.r.tmdbID = PrimaryResponse.results[1].id
             /\ Len(res.r.queries) = 1
        ELSE res.r.how # "old"

\* the second result is dated as the entity and is accepted, though the first
\* one scores higher
C23_Witness ==
    /\ pc = "score" /\ res.done
    /\ Len(PrimaryResponse.results) = 2
    /\ DateEqual = {2}
    /\ calculateScore(arg.anime, PrimaryResponse.results[1])
          > calculateScore(arg.anime, PrimaryResponse.results[2])
    /\ res.r.how = "old"
    /\ res.r.tmdbID = PrimaryResponse.results[2].id

\* ---------------------------------------------------------------------------
\* The fallback searches in a pipeline run
\* ---------------------------------------------------------------------------

\* the entity ranking ingestion builds for malID from the pages of the run
IngestedEntity(malID) ==
    NodeAnime(CHOOSE v \in UNION {Range(world.pages[k].data) : k \in DOMAIN world.pages} :
                v.id = malID)

\* the primary search of candidate c of the movie-database stage succeeded,
\* the shortcut accepted nothing and no result of it scores 50 or more
NeedsFallback(c) ==
    LET anime == trace.tmdb.backfilled[c.idx]
        query == IF anime.EnglishTitle # "" THEN anime.EnglishTitle ELSE anime.MainTitle
        tmdb == searchTMDB(world.search, query)
        best == findBestMatch(anime, tmdb.results)
    IN  /\ c.bridgeID = 0
        /\ anime.ReleaseDate # ""
        /\ tmdb.ok
        /\ OldLogicIndex(anime, tmdb) = 0
        /\ best.nil \/ best.Score < 50 * ScoreScale

\* C24: in a pipeline run, for every movie whose primary search gives no
\* candidate scoring at least 50, the movie-database stage searches next with
\* the Japanese title and each synonym ranking ingestion obtained for it in
\* the run, then with the generated title variants, in that order.
C24_FallbackTitlesSearched ==
    pc \in {"CheckDupes", "done"} =>
        \A k \in DOMAIN trace.tmdb.log :
            LET c == trace.tmdb.log[k]
            IN  NeedsFallback(c) =>
                    SubSeq(c.queries, 2, Len(c.queries)) = FallbackTitles(IngestedEntity(c.MalID))

\* ---------------------------------------------------------------------------
\* A failed search request
\* ---------------------------------------------------------------------------

\* the candidate the loop of GetTmdbIds is at goes to the API, has a release
\* date, and the request of its primary search fails
SearchFails ==
    LET anime == res.a0[res.toDo[res.k]]
    IN  /\ BridgeIDOf(res.al, anime) = 0
        /\ anime.ReleaseDate # ""
        /\ ~searchTMDB(world.search, IF anime.EnglishTitle # "" THEN anime.EnglishTitle
                                      ELSE anime.MainTitle).ok

\* C25: the pass of the candidate loop over a movie whose search request
\* fails changes no entity and no cache row and goes on to the next
\* candidate; the stage ends without error having made one pass for every
\* candidate, and every movie of its output without a TMDB id, the failed
\* candidates among them, is in the unmapped list it writes.
C25_SearchFailureNonFatal ==
    /\ [][(pc = "Fetch" /\ res.k <= Len(res.toDo) /\ SearchFails) =>
             /\ res'.a = res.a
             /\ cache' = cache
             /\ pc' = "Fetch"
             /\ res'.k = res.k + 1
             /\ res'.log = Append(res.log, res'.log[Len(res'.log)])
             /\ res'.log[Len(res'.log)].how = "searcherr"
             /\ res'.log[Len(res'.log)].tmdbID = 0]_vars
    /\ [](pc = "CheckDupes" =>
             /\ ~trace.failed
             /\ Len(trace.tmdb.log) = Len(trace.tmdb.toFetch)
             /\ \A i \in DOMAIN Get(files.tmdb) :
                   (Get(files.tmdb)[i].Type = "movie" /\ Get(files.tmdb)[i].TmdbID = 0) =>
                       \E k \in DOMAIN files.unmapped :
                           /\ files.unmapped[k].MALID = Get(files.tmdb)[i].MalID
                           /\ files.unmapped[k].MainTitle = Get(files.tmdb)[i].MainTitle
                           /\ files.unmapped[k].TMDBID = 0)

\* the stage has ended after two passes, the search of the first failed, and
\* its movie is in the unmapped list
C25_Witness ==
    /\ pc = "CheckDupes"
    /\ Len(trace.tmdb.log) = 2
    /\ trace.tmdb.log[1].how = "searcherr"
    /\ Get(files.tmdb)[trace.tmdb.log[1].idx].TmdbID = 0
    /\ \E k \in DOMAIN files.unmapped : files.unmapped[k].MALID = trace.tmdb.log[1].MalID

(***************************************************************************)
(* SpecOrder: the scrape stage with the fetches of its candidates under    *)
(* way at the same time.  The Visit loop issues the requests in list       *)
(* order; the callbacks of the pages that have answered run one link at a  *)
(* time, in page order within a page and in any order between pages.       *)
(* res.inflight maps the MalID of a requested page to the links whose      *)
(* callback has not run yet.  The collector of the source is synchronous:  *)
(* its behaviours are the ones in which the callbacks of a page run        *)
(* before the next request.                                                *)
(***************************************************************************)
OrderDetails ==
    {[id \in IDs |-> CASE id = 2 -> DetailPage(TRUE, <<200, 201>>)
                       [] OTHER -> DetailPage(TRUE, <<100>>)],
     [id \in IDs |-> CASE id = 1 -> DetailPage(FALSE, <<>>)
                       [] id = 2 -> DetailPage(TRUE, <<200>>)
                       [] OTHER -> DetailPage(TRUE, <<>>)]}

OrderWorlds ==
    {[w EXCEPT !.detail = d] :
        w \in {v \in StepWorlds : v.bridge = [body |-> BridgeBody, answers |-> <<TRUE>>,
                                              writable |-> TRUE]
                                  /\ v.search = [t \in {"Film C the Movie", "Film C", "Film C the"}
                                                   |-> FailedResponse]
                                  /\ ~v.authority.ok},
        d \in OrderDetails}

OrderInit ==
    /\ world \in OrderWorlds
    /\ config \in Configs
    /\ \E c \in StepCaches :
          LET r == GetAnimeIDsResult(world.pages, c)
          IN  /\ cache = r.cache
              /\ files = [NoFiles EXCEPT !.malid = Store(r.list)]
              /\ trace = [NewTrace(NoFiles, c) EXCEPT !.stages = <<"GetAnimeIDs">>]
    /\ pc = "ScrapeAniDBIDs"
    /\ run = 1
    /\ terminal = <<>>
    /\ arg = <<>> /\ res = <<>>

\* ScrapeAniDBIDs up to the Visit loop; with nothing to scrape, to its end
OrderBegin ==
    /\ pc = "ScrapeAniDBIDs"
    /\ LET anidbMap == GetAniDBIDs(cache)
           a == BackfillAniDB(Get(files.malid), anidbMap)
           toScrape == filterAnimeToScrape(config.AniDBMode, a, CachedMalIDs(anidbMap))
       IN  /\ res' = [a |-> a, toDo |-> toScrape, k |-> 1, visited |-> <<>>,
                      inflight |-> EmptyMap, c0 |-> cache]
           /\ IF Len(toScrape) = 0
              THEN /\ files' = [files EXCEPT !.anidb = Store(a)]
                   /\ pc' = "GetTvdbIDs"
              ELSE /\ pc' = "Visit"
                   /\ UNCHANGED files
    /\ UNCHANGED <<run, world, config, cache, terminal, trace, arg>>

\* cc.Visit of the next candidate: a URL visited before is not requested again
OrderRequest ==
    /\ pc = "Visit"
    /\ res.k <= Len(res.toDo)
    /\ LET malID == res.a[res.toDo[res.k]].MalID
       IN  res' = IF malID \in Range(res.visited) THEN [res EXCEPT !.k = @ + 1]
                  ELSE [res EXCEPT !.k = @ + 1,
                                   !.visited = Append(@, malID),
                                   !.inflight = Put(@, malID,
                                                    IF world.detail[malID].ok
                                                    THEN world.detail[malID].links ELSE <<>>)]
    /\ UNCHANGED <<pc, run, world, config, cache, files, terminal, trace, arg>>

\* the OnHTML callback for the next AniDB link of a page that has answered
OrderCallback ==
    /\ pc = "Visit"
    /\ \E malID \in DOMAIN res.inflight :
          /\ res.inflight[malID] # <<>>
          /\ LET st == OnHTML([a |-> res.a, cache |-> cache], malID,
                              <<res.inflight[malID][1]>>)
             IN  /\ res' = [res EXCEPT !.a = st.a, !.inflight[malID] = Tail(@)]
                 /\ cache' = st.cache
    /\ UNCHANGED <<pc, run, world, config, files, terminal, trace, arg>>

\* after cc.Wait: the store of malid-anidbid.json
OrderStore ==
    /\ pc = "Visit"
    /\ res.k > Len(res.toDo)
    /\ \A malID \in DOMAIN res.inflight : res.inflight[malID] = <<>>
    /\ files' = [files EXCEPT !.anidb = Store(res.a)]
    /\ pc' = "GetTvdbIDs"
    /\ UNCHANGED <<run, world, config, cache, terminal, trace, arg, res>>

OrderNext == OrderBegin \/ OrderRequest \/ OrderCallback \/ OrderStore

SpecOrder == OrderInit /\ [][OrderNext]_vars

\* C26: whatever the order in which the pages of the candidates answer and
\* their callbacks run, the scrape stage ends with the cache and the output
\* list that the visits made one after the other in list order give.
C26_OrderIndependent ==
    pc = "GetTvdbIDs" =>
        LET r == ScrapeAniDBIDsResult(config.AniDBMode, Get(files.malid), res.c0, world.detail)
        IN  /\ cache = r.cache
            /\ files.anidb = Store(r.list)

\* the stage has ended after the pages of two candidates with the same
\* AniDB link and of one with two links answered
C26_Witness ==
    /\ pc = "GetTvdbIDs"
    /\ Len(res.visited) = 3
    /\ Get(files.anidb)[1].AnidbID = 100
    /\ Get(files.anidb)[2].AnidbID = 201
    /\ Get(files.anidb)[3].AnidbID = 100
    /\ cache.anidb[2] = 201

(***************************************************************************)
(* SpecBridge: successive loads of the bridge table with a cache           *)
(* directory, with the clock.  Time is in hours.  The local file           *)
(* anime-list.xml is [exists, readable, mtime, body, whole]: whole is      *)
(* FALSE for a file a failed write left truncated, which does not parse.   *)
(* os.WriteFile creates a missing file with mode 0644 and leaves the mode  *)
(* of an existing file alone, so a write keeps what readable was; a file   *)
(* the process cannot read (another owner's file, a directory) it cannot   *)
(* open for writing either.  Between two loads only time passes.  arg is   *)
(* [now, file, lastWrite], lastWrite the time at which the load before     *)
(* wrote the file, -1 if it did not; res is the record of the last load.   *)
(***************************************************************************)
cacheMaxAge == 24
MaxClock == 51

\* loadFromCache with the comparison of the age turned around at the limit
loadFromCacheStrict(file, now) ==
    IF ~file.exists THEN [err |-> TRUE, body |-> <<>>, whole |-> FALSE]
    ELSE IF now - file.mtime >= cacheMaxAge THEN [err |-> TRUE, body |-> <<>>, whole |-> FALSE]
    ELSE IF ~file.readable THEN [err |-> TRUE, body |-> <<>>, whole |-> FALSE]
    ELSE [err |-> FALSE, body |-> file.body, whole |-> file.whole]

\* loadFromCache: os.Stat, the age against cacheMaxAge, os.ReadFile
loadFromCache(file, now) ==
    IF ~file.exists THEN [err |-> TRUE, body |-> <<>>, whole |-> FALSE]
    ELSE IF now - file.mtime > cacheMaxAge THEN [err |-> TRUE, body |-> <<>>, whole |-> FALSE]
    ELSE IF ~file.readable THEN [err |-> TRUE, body |-> <<>>, whole |-> FALSE]
    ELSE [err |-> FALSE, body |-> file.body, whole |-> file.whole]

\* the outcomes of os.WriteFile: "ok", "none" (the file could not be opened),
\* "truncated" (opened, which empties it, and then not written)
WriteOutcomes == {"ok", "none", "truncated"}

\* fetchFromURL: [err, body, whole, file]; the write of the local copy is
\* best effort
fetchFromURL(file, now, remote, w) ==
    IF ~remote.ok THEN [err |-> TRUE, body |-> <<>>, whole |-> FALSE, file |-> file]
    ELSE [err |-> FALSE, body |-> remote.body, whole |-> TRUE,
          file |-> CASE w = "ok" ->
                          [exists |-> TRUE, readable |-> ~file.exists \/ file.readable,
                           mtime |-> now, body |-> remote.body, whole |-> TRUE]
                     [] w = "truncated" ->
                          [exists |-> TRUE, readable |-> ~file.exists \/ file.readable,
                           mtime |-> now, body |-> <<>>, whole |-> FALSE]
                     [] OTHER -> file]

\* NewAnimeList(ctx, cacheDir) with a cache directory at time now:
\* [err, fetched, tvdbMap, tmdbMap, file]
NewAnimeListAt(file, now, remote, w) ==
    LET c == loadFromCache(file, now)
        f == IF c.err THEN fetchFromURL(file, now, remote, w)
             ELSE [err |-> FALSE, body |-> c.body, whole |-> c.whole, file |-> file]
        bad == f.err \/ ~f.whole
    IN  [err |-> bad, fetched |-> c.err,
         tvdbMap |-> IF bad THEN EmptyMap ELSE buildMap(f.body, "tvdbid", EmptyMap),
         tmdbMap |-> IF bad THEN EmptyMap ELSE buildMap(f.body, "tmdbid", EmptyMap),
         file |-> f.file]

BridgeFiles ==
    {[exists |-> FALSE, readable |-> FALSE, mtime |-> 0, body |-> <<>>, whole |-> FALSE]}
    \cup {[exists |-> TRUE, readable |-> r, mtime |-> m, body |-> BridgeBodyNoMovie, whole |-> TRUE] :
             r \in BOOLEAN, m \in {0, 1}}

BridgeInit ==
    /\ pc = "bridge"
    /\ arg \in {[now |-> cacheMaxAge + 1, file |-> f, lastWrite |-> -1] : f \in BridgeFiles}
    /\ res = [loaded |-> FALSE]
    /\ world = [ok |-> TRUE, body |-> BridgeBody]
    /\ run = 0 /\ config = <<>> /\ cache = <<>>
    /\ files = <<>> /\ terminal = <<>> /\ trace = <<>>

\* time passes
BridgeTick ==
    /\ pc = "bridge"
    /\ \E d \in {1, cacheMaxAge - 1} :
          /\ arg.now + d <= MaxClock
          /\ arg' = [arg EXCEPT !.now = @ + d]
    /\ UNCHANGED <<pc, res, world>> /\ FnFrame

\* one call of NewAnimeList
BridgeLoad ==
    /\ pc = "bridge"
    /\ \E ok \in BOOLEAN, w \in WriteOutcomes :
          /\ arg.file.exists /\ ~arg.file.readable => w = "none"
          /\ LET remote == [world EXCEPT !.ok = ok]
                 load == NewAnimeListAt(arg.file, arg.now, remote, w)
                 wrote == load.fetched /\ ok /\ w = "ok"
             IN  /\ res' = [loaded |-> TRUE, at |-> arg.now, pre |-> arg.file,
                            prevWrite |-> arg.lastWrite, remoteOk |-> ok, w |-> w,
                            err |-> load.err, fetched |-> load.fetched,
                            tvdbMap |-> load.tvdbMap, post |-> load.file]
                 /\ arg' = [arg EXCEPT !.file = load.file,
                                       !.lastWrite = IF wrote THEN arg.now ELSE -1]
    /\ UNCHANGED <<pc, world>> /\ FnFrame

BridgeNext == BridgeTick \/ BridgeLoad

SpecBridge == BridgeInit /\ [][BridgeNext]_vars

\* the file as a load found it exists, is readable and was modified at most
\* 24 hours before the load
FreshLocalCopy == res.pre.exists /\ res.pre.readable /\ res.at - res.pre.mtime <= 24

\* the load uses the local file without a request exactly for a fresh local
\* copy; otherwise it asks for the remote document, and given the document it
\* succeeds with the document's table whatever the write did, the file being
\* the document when the write succeeded
FreshnessOfLoad ==
    /\ res.fetched <=> ~FreshLocalCopy
    /\ ~res.fetched =>
          /\ res.post = res.pre
          /\ ~res.err => res.tvdbMap = buildMap(res.pre.body, "tvdbid", EmptyMap)
    /\ res.fetched =>
          /\ res.err <=> ~res.remoteOk
          /\ res.remoteOk => res.tvdbMap = buildMap(world.body, "tvdbid", EmptyMap)
          /\ res.remoteOk /\ res.w = "ok" =>
                /\ res.post.exists /\ res.post.mtime = res.at
                /\ res.post.body = world.body /\ res.post.whole
          /\ ~res.remoteOk \/ res.w = "none" => res.post = res.pre

\* the load came within 24 hours of the load before, which wrote the file
FollowsWrite == res.prevWrite # -1 /\ res.at - res.prevWrite <= 24

MaxOpens == 3

\* internal/database with the three tables
cacheSchema ==
    {"mal_cache", "idx_mal_cached_at", "idx_mal_last_used", "idx_mal_release_date",
     "idx_mal_type", "anidb_cache", "idx_anidb_id", "idx_anidb_cached_at",
     "tmdb_cache", "idx_tmdb_id", "idx_tmdb_cached_at"}
cacheMigrations == <<{}>>

\* internal/database with the single table cache_entries
cacheEntriesSchema ==
    {"cache_entries", "idx_cached_at", "idx_last_used", "idx_anidb_id",
     "idx_had_anidb_id", "idx_release_date", "idx_type"}
cacheEntriesMigrations == <<{}, {"cache_entries.tmdb_id", "idx_tmdb_id"}>>

\* internal/cache
schema == cacheEntriesSchema \cup {"cache_entries.html_hash"}
migrations == <<{}>>

Builds ==
    {[schema |-> cacheSchema, migrations |-> cacheMigrations],
     [schema |-> cacheEntriesSchema, migrations |-> cacheEntriesMigrations],
     [schema |-> schema, migrations |-> migrations]}

\* the objects the statements k..Len(list) of a list create
RECURSIVE ExecFrom(_, _)
ExecFrom(list, k) ==
    IF k > Len(list) THEN {} ELSE list[k] \cup ExecFrom(list, k + 1)

\* the points at which a call of Migrate can fail
MigrateFailures == {"none", "query", "begin", "exec", "version", "commit"}

\* DB.Migrate: [err, db].  A failure after Begin rolls the transaction back.
Migrate(db, build, fail) ==
    LET n == Len(build.migrations)
    IN  IF fail = "query" THEN [err |-> TRUE, db |-> db]
        ELSE IF db.version = n THEN [err |-> FALSE, db |-> db]
        ELSE IF db.version > n THEN [err |-> TRUE, db |-> db]
        ELSE IF fail \in {"begin", "exec", "version", "commit"} THEN [err |-> TRUE, db |-> db]
        ELSE [err |-> FALSE,
              db |-> [version |-> n,
                      objects |-> IF db.version = 0
                                  THEN db.objects \cup build.schema
                                  ELSE db.objects \cup ExecFrom(build.migrations, db.version + 1)]]

\* the database an open of the build's lineage left at version v
DatabaseAt(build, v) ==
    [version |-> v,
     objects |-> IF v = 0 THEN {}
                 ELSE build.schema \cup (ExecFrom(build.migrations, 1)
                                           \ ExecFrom(build.migrations, v + 1))]

MigrateInit ==
    /\ pc = "migrate"
    /\ arg \in {[build |-> b, db |-> DatabaseAt(b, v), opens |-> 0] :
                   b \in Builds, v \in 0..2}
    /\ res = [done |-> FALSE]
    /\ run = 0 /\ world = <<>> /\ config = <<>> /\ cache = <<>>
    /\ files = <<>> /\ terminal = <<>> /\ trace = <<>>

\* one open of the cache database: NewDB followed by Migrate
MigrateCall ==
    /\ pc = "migrate"
    /\ arg.opens < MaxOpens
    /\ \E fail \in MigrateFailures :
          LET m == Migrate(arg.db, arg.build, fail)
          IN  /\ res' = [done |-> TRUE, err |-> m.err, fail |-> fail, pre |-> arg.db]
              /\ arg' = [arg EXCEPT !.db = m.db, !.opens = @ + 1]
    /\ UNCHANGED pc /\ FnFrame

MigrateNext == MigrateCall

SpecMigrate == MigrateInit /\ [][MigrateNext]_vars

\* C28: after a successful Migrate from a version not above the number of
\* listed migrations, the stored version is the number of listed migrations
\* and the schema holds the base schema and what every listed migration
\* creates.
C28_MigrateComplete ==
    res.done /\ ~res.err /\ res.pre.version <= Len(arg.build.migrations) =>
        /\ arg.db.version = Len(arg.build.migrations)
        /\ arg.build.schema \subseteq arg.db.objects
        /\ \A i \in DOMAIN arg.build.migrations : arg.build.migrations[i] \subseteq arg.db.objects

\* C29: in tmdbid.json, the output of the movie-database stage, and in
\* for-shinkro.json, the terminal list, an entity with a TMDB id other than 0
\* is of type "movie", whatever the cache's TMDB id map holds.
C29_TmdbOnlyForMovies ==
    \A f \in {files.tmdb, files.shinkro} :
        \A i \in DOMAIN f.doc :
            Get(f)[i].TmdbID # 0 => Get(f)[i].Type = "movie"

\* entity i of the input of CheckDupes is in no duplicate group: it is not of
\* type "tv", or has no AniDB id, or no other "tv" entity has its AniDB id
OutsideGroups(i) ==
    \/ arg.anime[i].Type # "tv"
    \/ arg.anime[i].AnidbID = 0
    \/ ~\E j \in DOMAIN arg.anime \ {i} :
            arg.anime[j].Type = "tv" /\ arg.anime[j].AnidbID = arg.anime[i].AnidbID

\* the entities of a list that carry the MalID of an entity outside the groups
OutsidersOf(list) ==
    LET ids == {arg.anime[i].MalID : i \in {k \in DOMAIN arg.anime : OutsideGroups(k)}}
        Outsider(e) == e.MalID \in ids
    IN  SelectSeq(list, Outsider)

\* C30: CheckDupes returns every entity that is in no duplicate group,
\* unchanged and in the order of the input.
C30_OutsidersKept ==
    res.done => OutsidersOf(res.list) = OutsidersOf(arg.anime)

\* CheckDupes removed a member of a group that stood between two entities
\* outside the groups
C30_Witness ==
    /\ res.done
    /\ Len(res.list) < Len(arg.anime)
    /\ \E i, j, k \in DOMAIN arg.anime :
          /\ i < j /\ j < k
          /\ OutsideGroups(i) /\ OutsideGroups(k)
          /\ ~\E m \in DOMAIN res.list : res.list[m].MalID = arg.anime[j].MalID
====
